---- MODULE Spec2Model ----
(***************************************************************************)
(* A model of diffguard's diff parser (src/diffguard/git.py), region       *)
(* builder (src/diffguard/context.py), scope resolver (src/diffguard/ast/  *)
(* scope.py and python.py) and parser cache (src/diffguard/ast/parser.py). *)
(*                                                                         *)
(* Text is modelled as Python sees it: a str is a sequence of Unicode code *)
(* points, so a character is a natural number, chr and ord are the         *)
(* identity on code points, and a text literal is the tuple of its code    *)
(* points.  Indices of the Python code are 0-based; At(s, i) reads s[i].   *)
(***************************************************************************)
EXTENDS Integers, Sequences, FiniteSets, TLC

VARIABLES
    diff_string,    \* parse_diff: the argument, a text
    lines,          \* parse_diff: diff_string.split("\n"), once computed
    idx,            \* parse_diff: number of lines the for loop has consumed
    files,          \* parse_diff: the result list
    current_file,   \* parse_diff: <<>> is None, <<f>> is the open DiffFile
    current_hunk,   \* parse_diff: 0 is None, k refers to current_file.hunks[k-1]
    pc,             \* parse_diff: "idle", "start", "loop", "done" or "raised"
    regions,        \* merge_regions: the argument list
    merged,         \* merge_regions(regions), once computed
    remerged,       \* merge_regions(merged), once computed
    hunk,           \* expand_hunk: the DiffHunk argument
    expansion,      \* expand_hunk: the expansion argument
    file_length,    \* expand_hunk: <<>> is None, <<n>> is file_length = n
    region,         \* expand_hunk: <<>> before the call, <<r>> the returned Region
    diff_file,      \* build_file_regions: <<>> before the call, <<f>> the DiffFile argument
    built,          \* build_file_regions: the returned list
    objects,        \* the Region objects that exist, each named by its index
    arg_list,       \* merge_regions: the argument list, of references to objects
    result_list,    \* merge_regions: the returned list, of references to objects
    rpc,            \* region builder: "idle", "call", "merged", "remerged",
                    \* "expand", "expanded" or "built"
    tree,           \* find_enclosing_scope: the root node of the Tree argument
    line_no,        \* find_enclosing_scope: the argument line
    language,       \* find_enclosing_scope: the argument language
    scope,          \* <<>> is None, <<s>> the Scope returned by find_enclosing_scope
                    \* or handed to extract_scope_context
    descended,      \* the nodes _find_innermost_scope_node was called on
    source_lines,   \* extract_scope_context: the argument source_lines
    limit,          \* extract_scope_context: the argument limit
    is_new_file,    \* extract_scope_context: the argument is_new_file
    text,           \* extract_scope_context: the returned text
    apc,            \* ast: "idle", "find", "found", "extract" or "extracted"
    parser_cache,   \* parser.py: _parser_cache, language |-> <<>> or <<parser>>
    parsers,        \* parser.py: the Parser objects constructed so far, each
                    \* with the language it was constructed for
    tpc,            \* per thread: its position in get_parser / parse_file
    targ,           \* per thread: the operation called and its language argument
    tparser,        \* per thread: the local variable parser of get_parser
    tresult,        \* per thread: <<>> or <<p>>, the Parser get_parser returned
    traised,        \* per thread: <<>> or <<e>>, the exception the call raised
    tparsed,        \* per thread: the tree parser.parse produced, what
                    \* parse_file returned and whether it logged a warning
    issued,         \* history: per language, the parsers get_parser has
                    \* returned since the cache was last cleared
    loads,          \* history: per language, how often its grammar has been
                    \* loaded since the cache was last cleared
    retired         \* history: the parsers get_parser returned before the
                    \* cache was last cleared

parse_vars == <<diff_string, lines, idx, files, current_file, current_hunk, pc>>
region_vars ==
    <<regions, merged, remerged, hunk, expansion, file_length, region, diff_file,
      built, objects, arg_list, result_list, rpc>>
scope_vars == <<tree, line_no, language, scope, descended>>
extract_vars == <<source_lines, limit, is_new_file, text>>
cache_vars ==
    <<parser_cache, parsers, tpc, targ, tparser, tresult, traised, tparsed,
      issued, loads, retired>>
ast_vars == <<scope_vars, extract_vars, apc, cache_vars>>
vars == <<parse_vars, region_vars, ast_vars>>

----------------------------------------------------------------------------
(* Bounds of the model. *)

\* the longest input of parse_diff, in lines
MaxLines == 4
\* the longest input list of merge_regions
MaxRegions == 3
\* the largest line number in a Region handed to merge_regions
MaxRegionLine == 4
\* the largest line number, count and file length handed to expand_hunk
MaxLineNo == 10
\* the largest expansion handed to expand_hunk and build_file_regions
MaxExpansion == 3
\* the longest diff, in lines, whose files are handed to build_file_regions
MaxBuildLines == 3
\* the largest file_length handed to build_file_regions
MaxFileLength == 5
\* the last row (0-based) of the sources whose trees the resolver is handed
MaxRow == 3
\* the deepest nesting of definitions in those trees
MaxDepth == 2
\* the longest source_lines handed to extract_scope_context
MaxSourceLines == 4
\* the largest limit handed to extract_scope_context
MaxLimit == 3
\* the most decorators stacked on one definition
MaxDecorators == 2
\* the number of threads calling get_parser and parse_file
NumThreads == 2
\* the most Region objects a caller of merge_regions holds
MaxObjects == 2
\* the longest input of parse_diff made of metadata lines, in lines
MaxMetaLines == 3
\* the most Parser objects constructed in one run
MaxParsers == 3
\* the most named children of the root of a parsed tree
MaxNamedChildren == 2

----------------------------------------------------------------------------
(* Characters the code names. *)

\* '"'  (git.py:105, 146, 173)
Quote == 34
\* '\\' (git.py:155, 269)
Backslash == 92
\* ' '  (git.py:147, 264)
Space == 32
\* '+'  (git.py:264)
Plus == 43
\* '-'  (git.py:264)
Minus == 45
\* ','  (git.py:11)
Comma == 44
\* '\n' (git.py:250)
Newline == 10
\* '0', as ord('0'): the value of an ASCII digit c is c - 48
Zero == 48

\* DIFF_GIT is the text 'diff --git '
DIFF_GIT ==
    <<100,105,102,102,32,45,45,103,105,116,32>>
\* A_SLASH is the text 'a/'
A_SLASH ==
    <<97,47>>
\* B_SLASH is the text 'b/'
B_SLASH ==
    <<98,47>>
\* SP_B_SLASH is the text ' b/'
SP_B_SLASH ==
    <<32,98,47>>
\* NEW_FILE_MODE is the text 'new file mode'
NEW_FILE_MODE ==
    <<110,101,119,32,102,105,108,101,32,109,111,100,101>>
\* DELETED_FILE_MODE is the text 'deleted file mode'
DELETED_FILE_MODE ==
    <<100,101,108,101,116,101,100,32,102,105,108,101,32,109,111,100,101>>
\* OLD_MODE is the text 'old mode '
OLD_MODE ==
    <<111,108,100,32,109,111,100,101,32>>
\* NEW_MODE is the text 'new mode '
NEW_MODE ==
    <<110,101,119,32,109,111,100,101,32>>
\* RENAME_FROM is the text 'rename from '
RENAME_FROM ==
    <<114,101,110,97,109,101,32,102,114,111,109,32>>
\* RENAME_TO is the text 'rename to '
RENAME_TO ==
    <<114,101,110,97,109,101,32,116,111,32>>
\* BINARY_FILES is the text 'Binary files'
BINARY_FILES ==
    <<66,105,110,97,114,121,32,102,105,108,101,115>>
\* MINUS3 is the text '--- '
MINUS3 ==
    <<45,45,45,32>>
\* PLUS3 is the text '+++ '
PLUS3 ==
    <<43,43,43,32>>
\* DEV_NULL is the text '/dev/null'
DEV_NULL ==
    <<47,100,101,118,47,110,117,108,108>>
\* HH_OPEN is the text '@@ -', the start of HUNK_HEADER_RE
HH_OPEN ==
    <<64,64,32,45>>
\* HH_PLUS is the text ' +', the middle of HUNK_HEADER_RE
HH_PLUS ==
    <<32,43>>
\* HH_CLOSE is the text ' @@', the end of HUNK_HEADER_RE
HH_CLOSE ==
    <<32,64,64>>

----------------------------------------------------------------------------
(* Python's str operations, on sequences of code points. *)

Min(a, b) == IF a <= b THEN a ELSE b
Max(a, b) == IF a >= b THEN a ELSE b

\* s[i], 0-based
At(s, i) == s[i + 1]

\* s[a:b] for 0 <= a
Slice(s, a, b) == SubSeq(s, a + 1, Min(b, Len(s)))

\* s[a:]
From(s, a) == SubSeq(s, a + 1, Len(s))

\* s.startswith(p)
startswith(s, p) == Len(s) >= Len(p) /\ SubSeq(s, 1, Len(p)) = p

\* s.find(p): the lowest 0-based index where p occurs in s, or -1
find(s, p) ==
    LET hits == {i \in 0..(Len(s) - Len(p)) : SubSeq(s, i + 1, i + Len(p)) = p}
    IN  IF hits = {} THEN -1 ELSE CHOOSE i \in hits : \A j \in hits : i <= j

\* c.isspace() for the code points below 512: what str.strip() removes
isspace(c) == c \in {9, 10, 11, 12, 13, 28, 29, 30, 31, 32, 133, 160}

\* c.isdigit() for the code points below 512: the ASCII digits and the
\* superscripts one, two and three
isdigit(c) == c \in (48..57) \cup {178, 179, 185}

\* whether int(c) and the regex class \d accept the character c: the decimal
\* digits (category Nd), which below 512 are the ASCII digits only
isdecimal(c) == c \in 48..57

\* s.lstrip()
RECURSIVE lstrip(_)
lstrip(s) ==
    IF s # <<>> /\ isspace(s[1]) THEN lstrip(Tail(s)) ELSE s

\* not s.strip(): s is empty or whitespace only
isblank(s) == \A i \in 1..Len(s) : isspace(s[i])

\* s.split("\n"): the texts between consecutive newlines
split_lines(s) ==
    LET nl == {i \in 1..Len(s) : s[i] = Newline}
        n == Cardinality(nl)
        \* the k-th newline of s; 0 before the first and Len(s) + 1 after the last
        pos(k) == IF k = 0 THEN 0
                  ELSE IF k = n + 1 THEN Len(s) + 1
                  ELSE CHOOSE i \in nl : Cardinality({j \in nl : j < i}) = k - 1
    IN  [k \in 1..(n + 1) |-> SubSeq(s, pos(k - 1) + 1, pos(k) - 1)]

\* "\n".join(ls)
RECURSIVE join_lines(_)
join_lines(ls) ==
    IF ls = <<>> THEN <<>>
    ELSE IF Len(ls) = 1 THEN ls[1]
    ELSE ls[1] \o <<Newline>> \o join_lines(Tail(ls))

\* int(ds) for a text of ASCII digits, base 10 or 8
RECURSIVE int_of(_, _, _)
int_of(ds, base, acc) ==
    IF ds = <<>> THEN acc
    ELSE int_of(Tail(ds), base, acc * base + (ds[1] - Zero))

----------------------------------------------------------------------------
(* src/diffguard/git.py: the records. *)

\* DiffHunk(old_start, old_count, new_start, new_count), lines defaulting to []
DiffHunk(os, oc, ns, nc) ==
    [old_start |-> os, old_count |-> oc, new_start |-> ns, new_count |-> nc,
     lines |-> <<>>]

\* DiffFile(old_path, new_path), hunks defaulting to [] and every flag to False
DiffFile(old, new) ==
    [old_path |-> old, new_path |-> new, hunks |-> <<>>,
     is_new_file |-> FALSE, is_deleted |-> FALSE, is_renamed |-> FALSE,
     is_binary |-> FALSE, mode_changed |-> FALSE]

\* DiffFile.path
path(f) == IF f.is_deleted THEN f.old_path ELSE f.new_path

----------------------------------------------------------------------------
(* src/diffguard/git.py: C-style quoted paths.  A function that can raise  *)
(* returns a record whose field raised tells whether it raised ValueError. *)

\* chr(n): the character with code point n
chr(n) == n

\* _C_ESCAPE_MAP: the character after the backslash |-> the character it stands for
C_ESCAPE_MAP ==
    (92 :> 92) @@ (34 :> 34) @@ (110 :> 10) @@ (116 :> 9) @@ (114 :> 13) @@
    (97 :> 7) @@ (98 :> 8) @@ (102 :> 12) @@ (118 :> 11)

\* the for loop of _parse_c_quoted over j in range(i + 2, min(i + 4, len(s))):
\* int(s[j]) raises ValueError for a digit that is no decimal digit
RECURSIVE octal_tail(_, _, _, _)
octal_tail(s, j, stop, octal) ==
    IF j >= stop THEN [raised |-> FALSE, octal |-> octal]
    ELSE IF ~isdigit(At(s, j)) THEN [raised |-> FALSE, octal |-> octal]
    ELSE IF ~isdecimal(At(s, j)) THEN [raised |-> TRUE, octal |-> octal]
    ELSE IF At(s, j) - Zero < 8
         THEN octal_tail(s, j + 1, stop, Append(octal, At(s, j)))
         ELSE [raised |-> FALSE, octal |-> octal]

\* whether int(ds, 8) returns: it raises ValueError unless every character of
\* ds is one of '0'..'7'
int8_ok(ds) == \A k \in 1..Len(ds) : ds[k] \in 48..55

\* what _parse_c_quoted returns when it raises
CQuotedRaised == [raised |-> TRUE, content |-> <<>>, remainder |-> <<>>]

\* the while loop of _parse_c_quoted, from index i with the result so far
RECURSIVE c_quoted_loop(_, _, _)
c_quoted_loop(s, i, result) ==
    IF i >= Len(s)
    THEN [raised |-> FALSE, content |-> result, remainder |-> <<>>]
    ELSE IF At(s, i) = Backslash /\ i + 1 < Len(s)
    THEN LET next_ch == At(s, i + 1)
         IN  IF next_ch \in DOMAIN C_ESCAPE_MAP
             THEN c_quoted_loop(s, i + 2, Append(result, C_ESCAPE_MAP[next_ch]))
             ELSE IF isdigit(next_ch)
             THEN LET t == octal_tail(s, i + 2, Min(i + 4, Len(s)), <<next_ch>>)
                  IN  IF t.raised \/ ~int8_ok(t.octal)
                      THEN CQuotedRaised
                      ELSE c_quoted_loop(s, i + 1 + Len(t.octal),
                                         Append(result, chr(int_of(t.octal, 8, 0))))
             ELSE c_quoted_loop(s, i + 2, Append(result, next_ch))
    ELSE IF At(s, i) = Quote
    THEN [raised |-> FALSE, content |-> result, remainder |-> From(s, i + 1)]
    ELSE c_quoted_loop(s, i + 1, Append(result, At(s, i)))

\* _parse_c_quoted(s)
parse_c_quoted(s) ==
    IF ~startswith(s, <<Quote>>)
    THEN LET i == find(s, <<Space>>)
         IN  IF i = -1
             THEN [raised |-> FALSE, content |-> s, remainder |-> <<>>]
             ELSE [raised |-> FALSE, content |-> Slice(s, 0, i),
                   remainder |-> From(s, i + 1)]
    ELSE c_quoted_loop(s, 1, <<>>)

\* p with the prefix removed when p starts with it
strip_prefix(p, prefix) == IF startswith(p, prefix) THEN From(p, Len(prefix)) ELSE p

\* what _parse_diff_git_header returns when it raises
HeaderRaised == [raised |-> TRUE, old_path |-> <<>>, new_path |-> <<>>]

\* _parse_diff_git_header(line)
parse_diff_git_header(line) ==
    LET rest == From(line, Len(DIFF_GIT))
    IN  IF startswith(rest, <<Quote>>)
        THEN LET q1 == parse_c_quoted(rest)
                 remainder == lstrip(q1.remainder)
                 q2 == parse_c_quoted(remainder)
             IN  IF q1.raised THEN HeaderRaised
                 ELSE IF startswith(remainder, <<Quote>>)
                 THEN IF q2.raised THEN HeaderRaised
                      ELSE [raised |-> FALSE,
                            old_path |-> strip_prefix(q1.content, A_SLASH),
                            new_path |-> strip_prefix(q2.content, B_SLASH)]
                 ELSE [raised |-> FALSE,
                       old_path |-> strip_prefix(q1.content, A_SLASH),
                       new_path |-> strip_prefix(remainder, B_SLASH)]
        ELSE IF startswith(rest, A_SLASH) /\ find(rest, SP_B_SLASH) # -1
        THEN LET i == find(rest, SP_B_SLASH)
             IN  [raised |-> FALSE, old_path |-> Slice(rest, 2, i),
                  new_path |-> From(rest, i + 3)]
        ELSE [raised |-> FALSE, old_path |-> rest, new_path |-> rest]

\* a variant of extract_path: "/dev/null" is a path like any other
extract_path_dev_null_kept(raw, prefix) ==
    IF startswith(raw, <<Quote>>)
    THEN LET q == parse_c_quoted(raw)
         IN  IF q.raised THEN [raised |-> TRUE, none |-> FALSE, path |-> <<>>]
             ELSE [raised |-> FALSE, none |-> FALSE,
                   path |-> strip_prefix(q.content, prefix)]
    ELSE [raised |-> FALSE, none |-> FALSE, path |-> strip_prefix(raw, prefix)]

\* _extract_path(raw, prefix): none is TRUE for the result None
extract_path(raw, prefix) ==
    IF raw = DEV_NULL THEN [raised |-> FALSE, none |-> TRUE, path |-> <<>>]
    ELSE IF startswith(raw, <<Quote>>)
    THEN LET q == parse_c_quoted(raw)
         IN  IF q.raised THEN [raised |-> TRUE, none |-> FALSE, path |-> <<>>]
             ELSE [raised |-> FALSE, none |-> FALSE,
                   path |-> strip_prefix(q.content, prefix)]
    ELSE [raised |-> FALSE, none |-> FALSE, path |-> strip_prefix(raw, prefix)]

----------------------------------------------------------------------------
(* src/diffguard/git.py: hunk headers. *)

\* the end (0-based, exclusive) of the longest run of \d characters from i
RECURSIVE digits_end(_, _)
digits_end(s, i) ==
    IF i < Len(s) /\ isdecimal(At(s, i)) THEN digits_end(s, i + 1) ELSE i

\* the end of an optional group (?:,(\d+))? tried at i: i when it is absent
opt_count_end(s, i) ==
    IF i < Len(s) /\ At(s, i) = Comma /\ digits_end(s, i + 1) > i + 1
    THEN digits_end(s, i + 1)
    ELSE i

\* HUNK_HEADER_RE.match(line): ^@@ -(\d+)(?:,(\d+))? \+(\d+)(?:,(\d+))? @@
\* with the four groups as texts, <<>> for a group that did not take part
hunk_header_match(line) ==
    LET s1 == Len(HH_OPEN)
        e1 == digits_end(line, s1)
        e2 == opt_count_end(line, e1)
        s3 == e2 + Len(HH_PLUS)
        e3 == digits_end(line, s3)
        e4 == opt_count_end(line, e3)
        ok == /\ startswith(line, HH_OPEN)
              /\ e1 > s1
              /\ Slice(line, e2, s3) = HH_PLUS
              /\ e3 > s3
              /\ Slice(line, e4, e4 + Len(HH_CLOSE)) = HH_CLOSE
    IN  IF ok
        THEN [matched |-> TRUE,
              g1 |-> Slice(line, s1, e1),
              g2 |-> IF e2 > e1 THEN Slice(line, e1 + 1, e2) ELSE <<>>,
              g3 |-> Slice(line, s3, e3),
              g4 |-> IF e4 > e3 THEN Slice(line, e3 + 1, e4) ELSE <<>>]
        ELSE [matched |-> FALSE, g1 |-> <<>>, g2 |-> <<>>, g3 |-> <<>>, g4 |-> <<>>]

\* a variant of parse_hunk_header: a count of 0 is stored as 1, as
\* "int(group) or 1" would
parse_hunk_header_zero_as_one(m) ==
    DiffHunk(int_of(m.g1, 10, 0),
             IF m.g2 # <<>> THEN Max(int_of(m.g2, 10, 0), 1) ELSE 1,
             int_of(m.g3, 10, 0),
             IF m.g4 # <<>> THEN Max(int_of(m.g4, 10, 0), 1) ELSE 1)

\* _parse_hunk_header(hunk_match)
parse_hunk_header(m) ==
    DiffHunk(int_of(m.g1, 10, 0),
             IF m.g2 # <<>> THEN int_of(m.g2, 10, 0) ELSE 1,
             int_of(m.g3, 10, 0),
             IF m.g4 # <<>> THEN int_of(m.g4, 10, 0) ELSE 1)

----------------------------------------------------------------------------
(* src/diffguard/git.py: metadata lines. *)

\* a variant of apply_metadata_line: only "old mode " sets mode_changed
apply_metadata_line_old_mode_only(line, f) ==
    IF startswith(line, NEW_FILE_MODE)
    THEN [raised |-> FALSE, file |-> [f EXCEPT !.is_new_file = TRUE]]
    ELSE IF startswith(line, DELETED_FILE_MODE)
    THEN [raised |-> FALSE, file |-> [f EXCEPT !.is_deleted = TRUE]]
    ELSE IF startswith(line, OLD_MODE)
    THEN [raised |-> FALSE, file |-> [f EXCEPT !.mode_changed = TRUE]]
    ELSE IF startswith(line, RENAME_FROM)
    THEN [raised |-> FALSE,
          file |-> [f EXCEPT !.old_path = From(line, Len(RENAME_FROM)),
                             !.is_renamed = TRUE]]
    ELSE IF startswith(line, RENAME_TO)
    THEN [raised |-> FALSE,
          file |-> [f EXCEPT !.new_path = From(line, Len(RENAME_TO)),
                             !.is_renamed = TRUE]]
    ELSE IF startswith(line, BINARY_FILES)
    THEN [raised |-> FALSE, file |-> [f EXCEPT !.is_binary = TRUE]]
    ELSE IF startswith(line, MINUS3)
    THEN LET p == extract_path(From(line, 4), A_SLASH)
         IN  IF p.raised THEN [raised |-> TRUE, file |-> f]
             ELSE IF ~p.none
             THEN [raised |-> FALSE, file |-> [f EXCEPT !.old_path = p.path]]
             ELSE [raised |-> FALSE, file |-> f]
    ELSE IF startswith(line, PLUS3)
    THEN LET p == extract_path(From(line, 4), B_SLASH)
         IN  IF p.raised THEN [raised |-> TRUE, file |-> f]
             ELSE IF ~p.none
             THEN [raised |-> FALSE, file |-> [f EXCEPT !.new_path = p.path]]
             ELSE [raised |-> FALSE, file |-> f]
    ELSE [raised |-> FALSE, file |-> f]

\* _apply_metadata_line(line, diff_file): the DiffFile after the call
apply_metadata_line(line, f) ==
    IF startswith(line, NEW_FILE_MODE)
    THEN [raised |-> FALSE, file |-> [f EXCEPT !.is_new_file = TRUE]]
    ELSE IF startswith(line, DELETED_FILE_MODE)
    THEN [raised |-> FALSE, file |-> [f EXCEPT !.is_deleted = TRUE]]
    ELSE IF startswith(line, OLD_MODE) \/ startswith(line, NEW_MODE)
    THEN [raised |-> FALSE, file |-> [f EXCEPT !.mode_changed = TRUE]]
    ELSE IF startswith(line, RENAME_FROM)
    THEN [raised |-> FALSE,
          file |-> [f EXCEPT !.old_path = From(line, Len(RENAME_FROM)),
                             !.is_renamed = TRUE]]
    ELSE IF startswith(line, RENAME_TO)
    THEN [raised |-> FALSE,
          file |-> [f EXCEPT !.new_path = From(line, Len(RENAME_TO)),
                             !.is_renamed = TRUE]]
    ELSE IF startswith(line, BINARY_FILES)
    THEN [raised |-> FALSE, file |-> [f EXCEPT !.is_binary = TRUE]]
    ELSE IF startswith(line, MINUS3)
    THEN LET p == extract_path(From(line, 4), A_SLASH)
         IN  IF p.raised THEN [raised |-> TRUE, file |-> f]
             ELSE IF ~p.none
             THEN [raised |-> FALSE, file |-> [f EXCEPT !.old_path = p.path]]
             ELSE [raised |-> FALSE, file |-> f]
    ELSE IF startswith(line, PLUS3)
    THEN LET p == extract_path(From(line, 4), B_SLASH)
         IN  IF p.raised THEN [raised |-> TRUE, file |-> f]
             ELSE IF ~p.none
             THEN [raised |-> FALSE, file |-> [f EXCEPT !.new_path = p.path]]
             ELSE [raised |-> FALSE, file |-> f]
    ELSE [raised |-> FALSE, file |-> f]

----------------------------------------------------------------------------
(* src/diffguard/git.py: parse_diff, one action per branch of its loop. *)

\* the line the for loop is about to consume
line == lines[idx + 1]

InLoop == pc = "loop" /\ idx < Len(lines)

\* a variant of flushed: the open DiffFile is put at the front of the result
flushed_at_front == current_file \o files

\* files after files.append(current_file), when current_file is not None
flushed == files \o current_file

\* a variant of IsLineEdit: "-" is left out of the tags
IsLineEdit_no_minus ==
    current_hunk # 0 /\ line # <<>> /\ line[1] \in {Space, Plus}

\* line[0] in (" ", "+", "-") for a non-empty line, inside an open hunk
IsLineEdit ==
    current_hunk # 0 /\ line # <<>> /\ line[1] \in {Space, Plus, Minus}

\* if not diff_string or not diff_string.strip(): return []
EarlyReturn ==
    /\ pc = "start"
    /\ isblank(diff_string)
    /\ files' = <<>>
    /\ pc' = "done"
    /\ UNCHANGED <<diff_string, lines, idx, current_file, current_hunk>>
    /\ UNCHANGED <<region_vars, ast_vars>>

\* files = [], current_file = None, current_hunk = None, and the split
BeginLoop ==
    /\ pc = "start"
    /\ ~isblank(diff_string)
    /\ files' = <<>>
    /\ current_file' = <<>>
    /\ current_hunk' = 0
    /\ lines' = split_lines(diff_string)
    /\ idx' = 0
    /\ pc' = "loop"
    /\ UNCHANGED diff_string
    /\ UNCHANGED <<region_vars, ast_vars>>

\* a variant of FileHeader: the open hunk is left open across the header
FileHeader_hunk_left_open ==
    /\ InLoop
    /\ startswith(line, DIFF_GIT)
    /\ files' = flushed
    /\ LET h == parse_diff_git_header(line)
       IN  IF h.raised
           THEN /\ pc' = "raised"
                /\ UNCHANGED <<current_file, current_hunk, idx>>
           ELSE /\ current_file' = <<DiffFile(h.old_path, h.new_path)>>
                /\ current_hunk' = current_hunk
                /\ idx' = idx + 1
                /\ pc' = pc
    /\ UNCHANGED <<diff_string, lines>>
    /\ UNCHANGED <<region_vars, ast_vars>>

\* a line starting "diff --git ": flush, then open a new DiffFile
FileHeader ==
    /\ InLoop
    /\ startswith(line, DIFF_GIT)
    /\ files' = flushed
    /\ LET h == parse_diff_git_header(line)
       IN  IF h.raised
           THEN /\ pc' = "raised"
                /\ UNCHANGED <<current_file, current_hunk, idx>>
           ELSE /\ current_file' = <<DiffFile(h.old_path, h.new_path)>>
                /\ current_hunk' = 0
                /\ idx' = idx + 1
                /\ pc' = pc
    /\ UNCHANGED <<diff_string, lines>>
    /\ UNCHANGED <<region_vars, ast_vars>>

\* if current_file is None: continue
SkipBeforeFirstFile ==
    /\ InLoop
    /\ ~startswith(line, DIFF_GIT)
    /\ current_file = <<>>
    /\ idx' = idx + 1
    /\ UNCHANGED <<diff_string, lines, files, current_file, current_hunk, pc>>
    /\ UNCHANGED <<region_vars, ast_vars>>

\* current_hunk.lines.append((line[0], line[1:])); current_hunk is the object
\* at current_file.hunks[current_hunk - 1]
LineEdit ==
    /\ InLoop
    /\ ~startswith(line, DIFF_GIT)
    /\ current_file # <<>>
    /\ IsLineEdit
    /\ current_file' =
          <<[current_file[1] EXCEPT !.hunks[current_hunk].lines =
                Append(@, <<line[1], From(line, 1)>>)]>>
    /\ idx' = idx + 1
    /\ UNCHANGED <<diff_string, lines, files, current_hunk, pc>>
    /\ UNCHANGED <<region_vars, ast_vars>>

\* a variant of NoNewlineMarker: the marker also closes the open hunk
NoNewlineMarker_closes_hunk ==
    /\ InLoop
    /\ ~startswith(line, DIFF_GIT)
    /\ current_file # <<>>
    /\ ~IsLineEdit
    /\ startswith(line, <<Backslash>>)
    /\ idx' = idx + 1
    /\ current_hunk' = 0
    /\ UNCHANGED <<diff_string, lines, files, current_file, pc>>
    /\ UNCHANGED <<region_vars, ast_vars>>

\* if line.startswith("\\"): continue
NoNewlineMarker ==
    /\ InLoop
    /\ ~startswith(line, DIFF_GIT)
    /\ current_file # <<>>
    /\ ~IsLineEdit
    /\ startswith(line, <<Backslash>>)
    /\ idx' = idx + 1
    /\ UNCHANGED <<diff_string, lines, files, current_file, current_hunk, pc>>
    /\ UNCHANGED <<region_vars, ast_vars>>

\* a line HUNK_HEADER_RE matches: a new current_hunk, appended to the file's hunks
HunkHeader ==
    /\ InLoop
    /\ ~startswith(line, DIFF_GIT)
    /\ current_file # <<>>
    /\ ~IsLineEdit
    /\ ~startswith(line, <<Backslash>>)
    /\ hunk_header_match(line).matched
    /\ current_file' =
          <<[current_file[1] EXCEPT !.hunks =
                Append(@, parse_hunk_header(hunk_header_match(line)))]>>
    /\ current_hunk' = Len(current_file[1].hunks) + 1
    /\ idx' = idx + 1
    /\ UNCHANGED <<diff_string, lines, files, pc>>
    /\ UNCHANGED <<region_vars, ast_vars>>

\* _apply_metadata_line(line, current_file)
MetadataLine ==
    /\ InLoop
    /\ ~startswith(line, DIFF_GIT)
    /\ current_file # <<>>
    /\ ~IsLineEdit
    /\ ~startswith(line, <<Backslash>>)
    /\ ~hunk_header_match(line).matched
    /\ LET m == apply_metadata_line(line, current_file[1])
       IN  IF m.raised
           THEN /\ pc' = "raised"
                /\ UNCHANGED <<current_file, idx>>
           ELSE /\ current_file' = <<m.file>>
                /\ idx' = idx + 1
                /\ pc' = pc
    /\ UNCHANGED <<diff_string, lines, files, current_hunk>>
    /\ UNCHANGED <<region_vars, ast_vars>>

\* after the loop: append the open DiffFile and return files
ReturnFiles ==
    /\ pc = "loop"
    /\ idx = Len(lines)
    /\ files' = flushed
    /\ pc' = "done"
    /\ UNCHANGED <<diff_string, lines, idx, current_file, current_hunk>>
    /\ UNCHANGED <<region_vars, ast_vars>>

ParseNext ==
    \/ EarlyReturn
    \/ BeginLoop
    \/ FileHeader
    \/ SkipBeforeFirstFile
    \/ LineEdit
    \/ NoNewlineMarker
    \/ HunkHeader
    \/ MetadataLine
    \/ ReturnFiles

----------------------------------------------------------------------------
(* src/diffguard/context.py: expand_hunk and merge_regions. *)

\* Region(start_line, end_line)
Region(s, e) == [start_line |-> s, end_line |-> e]

\* a variant of expand_hunk: the start is not clamped to line 1
expand_hunk_unclamped_start(h, e, fl) ==
    LET hunk_end == h.new_start + Max(h.new_count, 1) - 1
        end == hunk_end + e
    IN  [start_line |-> h.new_start - e,
         end_line |-> IF fl # <<>> THEN Min(fl[1], end) ELSE end]

\* expand_hunk(hunk, expansion, file_length): fl is <<>> for None, <<n>> for n
expand_hunk(h, e, fl) ==
    LET hunk_start == h.new_start
        hunk_end == h.new_start + Max(h.new_count, 1) - 1
        start == hunk_start - e
        end == hunk_end + e
    IN  Region(Max(1, start), IF fl # <<>> THEN Min(fl[1], end) ELSE end)

\* a variant of insert_by_start: r goes before the elements with an equal
\* start_line, which makes the sort unstable
RECURSIVE insert_by_start_unstable(_, _)
insert_by_start_unstable(rs, r) ==
    IF rs = <<>> THEN <<r>>
    ELSE IF rs[1].start_line < r.start_line
         THEN <<rs[1]>> \o insert_by_start_unstable(Tail(rs), r)
         ELSE <<r>> \o rs

\* rs with r inserted after every element whose start_line is <= r's: one
\* step of a stable sort by start_line
RECURSIVE insert_by_start(_, _)
insert_by_start(rs, r) ==
    IF rs = <<>> THEN <<r>>
    ELSE IF rs[1].start_line <= r.start_line
         THEN <<rs[1]>> \o insert_by_start(Tail(rs), r)
         ELSE <<r>> \o rs

\* sorted(regions, key=lambda r: r.start_line), which is stable
RECURSIVE sorted_by_start(_)
sorted_by_start(rs) ==
    IF rs = <<>> THEN <<>>
    ELSE insert_by_start(sorted_by_start(SubSeq(rs, 1, Len(rs) - 1)), rs[Len(rs)])

\* a variant of merges_into: only overlapping regions merge, adjacent ones do not
merges_into_overlap_only(current, r) == r.start_line <= current.end_line

\* a variant of merges_into: a gap of one line is merged as well
merges_into_gap_of_one(current, r) == r.start_line <= current.end_line + 2

\* whether the loop of merge_regions merges region into current = merged[-1]
merges_into(current, r) == r.start_line <= current.end_line + 1

\* a variant of merged_end: the end of the region merged in, without the max
merged_end_of_last(current, r) == r.end_line

\* current.end_line after a merge: max(current.end_line, region.end_line)
merged_end(current, r) == Max(current.end_line, r.end_line)

\* the loop of merge_regions over sorted_regions[k:], with merged so far
RECURSIVE merge_loop(_, _, _)
merge_loop(sorted_regions, k, acc) ==
    IF k > Len(sorted_regions) THEN acc
    ELSE LET r == sorted_regions[k]
             current == acc[Len(acc)]
         IN  IF merges_into(current, r)
             THEN merge_loop(sorted_regions, k + 1,
                    [acc EXCEPT ![Len(acc)].end_line = merged_end(current, r)])
             ELSE merge_loop(sorted_regions, k + 1,
                    Append(acc, Region(r.start_line, r.end_line)))

\* merge_regions(regions)
merge_regions(rs) ==
    IF Len(rs) <= 1
    THEN [i \in 1..Len(rs) |-> Region(rs[i].start_line, rs[i].end_line)]
    ELSE LET sorted_regions == sorted_by_start(rs)
         IN  merge_loop(sorted_regions, 2,
                        <<Region(sorted_regions[1].start_line,
                                 sorted_regions[1].end_line)>>)

\* merged = merge_regions(regions)
CallMerge ==
    /\ rpc = "call"
    /\ merged' = merge_regions(regions)
    /\ rpc' = "merged"
    /\ UNCHANGED <<regions, remerged, hunk, expansion, file_length, region>>
    /\ UNCHANGED <<diff_file, built>>
    /\ UNCHANGED <<objects, arg_list, result_list>>
    /\ UNCHANGED <<parse_vars, ast_vars>>

\* remerged = merge_regions(merged)
CallMergeAgain ==
    /\ rpc = "merged"
    /\ remerged' = merge_regions(merged)
    /\ rpc' = "remerged"
    /\ UNCHANGED <<regions, merged, hunk, expansion, file_length, region>>
    /\ UNCHANGED <<diff_file, built>>
    /\ UNCHANGED <<objects, arg_list, result_list>>
    /\ UNCHANGED <<parse_vars, ast_vars>>

\* merge_regions once more, with the Region objects told apart: a list holds
\* references, objs[ref] is the object a reference leads to, and a new
\* object gets the next index.

\* sorted(...), on references: ref put into the list rs sorted by start_line
RECURSIVE insert_ref_by_start(_, _, _)
insert_ref_by_start(objs, rs, ref) ==
    IF rs = <<>> THEN <<ref>>
    ELSE IF objs[rs[1]].start_line <= objs[ref].start_line
         THEN <<rs[1]>> \o insert_ref_by_start(objs, Tail(rs), ref)
         ELSE <<ref>> \o rs

\* sorted(regions, key=lambda r: r.start_line): a new list of the same objects
RECURSIVE sorted_refs(_, _)
sorted_refs(objs, rs) ==
    IF rs = <<>> THEN <<>>
    ELSE insert_ref_by_start(objs, sorted_refs(objs, SubSeq(rs, 1, Len(rs) - 1)),
                             rs[Len(rs)])

\* the loop of merge_regions over sorted_regions[k:]: the objects and the
\* list merged after it
RECURSIVE merge_loop_objects(_, _, _, _)
merge_loop_objects(objs, sorted_regions, k, acc) ==
    IF k > Len(sorted_regions) THEN [objects |-> objs, list |-> acc]
    ELSE LET r == objs[sorted_regions[k]]
             current == acc[Len(acc)]
         IN  IF merges_into(objs[current], r)
             THEN merge_loop_objects(
                    [objs EXCEPT ![current].end_line = merged_end(objs[current], r)],
                    sorted_regions, k + 1, acc)
             ELSE merge_loop_objects(
                    Append(objs, Region(r.start_line, r.end_line)),
                    sorted_regions, k + 1, Append(acc, Len(objs) + 1))

\* a variant of merge_regions_objects: a list of at most one region is
\* returned as list(regions), with the objects it was given
merge_regions_objects_short_list_shared(objs, rs) ==
    IF Len(rs) <= 1
    THEN [objects |-> objs, list |-> rs]
    ELSE LET sorted_regions == sorted_refs(objs, rs)
             first == objs[sorted_regions[1]]
         IN  merge_loop_objects(
                Append(objs, Region(first.start_line, first.end_line)),
                sorted_regions, 2, <<Len(objs) + 1>>)

\* merge_regions(regions): the objects after the call and the returned list
merge_regions_objects(objs, rs) ==
    IF Len(rs) <= 1
    THEN [objects |-> objs \o [i \in 1..Len(rs) |->
                                  Region(objs[rs[i]].start_line,
                                         objs[rs[i]].end_line)],
          list |-> [i \in 1..Len(rs) |-> Len(objs) + i]]
    ELSE LET sorted_regions == sorted_refs(objs, rs)
             first == objs[sorted_regions[1]]
         IN  merge_loop_objects(
                Append(objs, Region(first.start_line, first.end_line)),
                sorted_regions, 2, <<Len(objs) + 1>>)

\* result_list = merge_regions(arg_list)
CallMergeObjects ==
    /\ rpc = "objects"
    /\ LET m == merge_regions_objects(objects, arg_list)
       IN  /\ objects' = m.objects
           /\ result_list' = m.list
    /\ rpc' = "returned"
    /\ UNCHANGED <<regions, merged, remerged, hunk, expansion, file_length,
                   region, diff_file, built, arg_list>>
    /\ UNCHANGED <<parse_vars, ast_vars>>

\* the caller changes a field of a region of the returned list
ChangeReturned ==
    /\ rpc = "returned"
    /\ \E i \in 1..Len(result_list) :
          \/ objects' = [objects EXCEPT ![result_list[i]].start_line = 0]
          \/ objects' = [objects EXCEPT ![result_list[i]].end_line = @ + 1]
    /\ rpc' = "changed"
    /\ UNCHANGED <<regions, merged, remerged, hunk, expansion, file_length,
                   region, diff_file, built, arg_list, result_list>>
    /\ UNCHANGED <<parse_vars, ast_vars>>

\* region = expand_hunk(hunk, expansion, file_length)
CallExpand ==
    /\ rpc = "expand"
    /\ region' = <<expand_hunk(hunk, expansion, file_length)>>
    /\ rpc' = "expanded"
    /\ UNCHANGED <<regions, merged, remerged, hunk, expansion, file_length>>
    /\ UNCHANGED <<diff_file, built>>
    /\ UNCHANGED <<objects, arg_list, result_list>>
    /\ UNCHANGED <<parse_vars, ast_vars>>

\* a variant of build_file_regions: the new-file test comes after the test
\* for deleted, binary and hunk-less files
build_file_regions_new_file_last(f, fl, e) ==
    IF f.is_deleted \/ f.is_binary \/ f.hunks = <<>>
    THEN <<>>
    ELSE IF f.is_new_file
    THEN <<Region(1, fl)>>
    ELSE merge_regions([k \in 1..Len(f.hunks) |-> expand_hunk(f.hunks[k], e, <<fl>>)])

\* a variant of build_file_regions: a binary file is not told apart
build_file_regions_binary_kept(f, fl, e) ==
    IF f.is_new_file
    THEN <<Region(1, fl)>>
    ELSE IF f.is_deleted \/ f.hunks = <<>>
    THEN <<>>
    ELSE merge_regions([k \in 1..Len(f.hunks) |-> expand_hunk(f.hunks[k], e, <<fl>>)])

\* build_file_regions(diff_file, file_length, expansion)
build_file_regions(f, fl, e) ==
    IF f.is_new_file
    THEN <<Region(1, fl)>>
    ELSE IF f.is_deleted \/ f.is_binary \/ f.hunks = <<>>
    THEN <<>>
    ELSE merge_regions([k \in 1..Len(f.hunks) |-> expand_hunk(f.hunks[k], e, <<fl>>)])

\* built = build_file_regions(files[k], n, e), for a DiffFile parse_diff
\* returned, a file length n and an expansion e
CallBuild ==
    /\ pc = "done"
    /\ rpc = "idle"
    /\ \E k \in 1..Len(files), n \in 0..MaxFileLength, e \in 0..MaxExpansion :
          /\ diff_file' = <<files[k]>>
          /\ file_length' = <<n>>
          /\ expansion' = e
          /\ built' = build_file_regions(files[k], n, e)
    /\ rpc' = "built"
    /\ UNCHANGED <<regions, merged, remerged, hunk, region>>
    /\ UNCHANGED <<objects, arg_list, result_list>>
    /\ UNCHANGED <<parse_vars, ast_vars>>

----------------------------------------------------------------------------
(* src/diffguard/ast/python.py and ast/scope.py: the scope resolver.  A    *)
(* tree-sitter Node is a record of what the code reads of it: its type,    *)
(* the rows of its start_point and end_point, its children and the text of *)
(* its name field (<<>> when child_by_field_name("name") is None).  A node *)
(* of a tree is named by its path, the child indices from the root; the    *)
(* parent of the node at path p is the node at Front(p).                   *)

Node(type, name, start_row, end_row, children) ==
    [type |-> type, name |-> name, start_row |-> start_row, end_row |-> end_row,
     children |-> children]

\* the node at path p below the node t
RECURSIVE NodeAt(_, _)
NodeAt(t, p) == IF p = <<>> THEN t ELSE NodeAt(t.children[p[1]], Tail(p))

\* p without its last element: the path of node.parent
Front(p) == SubSeq(p, 1, Len(p) - 1)

\* Scope(type, name, start_line, end_line)
Scope(type, name, start_line, end_line) ==
    [type |-> type, name |-> name, start_line |-> start_line, end_line |-> end_line]

\* a variant of SCOPE_NODE_TYPES: a lambda counts as a scope
SCOPE_NODE_TYPES_with_lambda == {"function_definition", "class_definition", "lambda"}

\* _SCOPE_NODE_TYPES
SCOPE_NODE_TYPES == {"function_definition", "class_definition"}

\* _NODE_TYPE_TO_SCOPE_TYPE[type]; the lookup raises KeyError for another type
NODE_TYPE_TO_SCOPE_TYPE(type) ==
    CASE type = "function_definition" -> "function"
      [] type = "class_definition" -> "class"
      [] OTHER -> "KeyError"

\* child.start_point.row <= row <= child.end_point.row
contains_row(n, row) == n.start_row <= row /\ row <= n.end_row

\* _definition_from_decorated(node), for the node at path p: <<>> is None,
\* <<q>> the path of the first child whose type is a scope type
definition_from_decorated(t, p) ==
    LET cs == NodeAt(t, p).children
        hits == {i \in 1..Len(cs) : cs[i].type \in SCOPE_NODE_TYPES}
    IN  IF hits = {} THEN <<>>
        ELSE <<Append(p, CHOOSE i \in hits : \A j \in hits : i <= j)>>

\* a variant of prefer: the enclosing candidate is kept when there is one
prefer_outer(deeper, otherwise) == IF otherwise # <<>> THEN otherwise ELSE deeper

\* "if deeper is not None: best = deeper": deeper when it is a node, else
\* the candidate best holds already
prefer(deeper, otherwise) == IF deeper # <<>> THEN deeper ELSE otherwise

\* _find_innermost_scope_node(root, row) for the node at path root of t, and
\* its for loop from child i on.  The result is a record: best is <<>> for
\* None or <<p>> for the node at path p, and calls is the set of nodes the
\* function was called on, this call and the recursive ones.
RECURSIVE find_innermost_scope_node(_, _, _)
RECURSIVE children_loop(_, _, _, _, _)
children_loop(t, root, row, i, acc) ==
    IF i > Len(NodeAt(t, root).children) THEN acc
    ELSE
      LET cp == Append(root, i)
          child == NodeAt(t, cp)
      IN  IF ~contains_row(child, row)
          THEN children_loop(t, root, row, i + 1, acc)
          ELSE IF child.type = "decorated_definition"
          THEN LET inner == definition_from_decorated(t, cp)
               IN  IF inner = <<>>
                   THEN children_loop(t, root, row, i + 1, acc)
                   ELSE IF contains_row(NodeAt(t, inner[1]), row)
                   THEN LET r == find_innermost_scope_node(t, inner[1], row)
                        IN  children_loop(t, root, row, i + 1,
                               [best |-> prefer(r.best, inner),
                                calls |-> acc.calls \cup r.calls])
                   ELSE children_loop(t, root, row, i + 1,
                               [best |-> inner, calls |-> acc.calls])
          ELSE IF child.type \in SCOPE_NODE_TYPES
          THEN LET r == find_innermost_scope_node(t, cp, row)
               IN  children_loop(t, root, row, i + 1,
                      [best |-> prefer(r.best, <<cp>>),
                       calls |-> acc.calls \cup r.calls])
          ELSE LET r == find_innermost_scope_node(t, cp, row)
               IN  children_loop(t, root, row, i + 1,
                      [best |-> prefer(r.best, acc.best),
                       calls |-> acc.calls \cup r.calls])

find_innermost_scope_node(t, root, row) ==
    children_loop(t, root, row, 1, [best |-> <<>>, calls |-> {root}])

\* UNKNOWN is the text '<unknown>'
UNKNOWN ==
    <<60,117,110,107,110,111,119,110,62>>

\* _get_node_name(node)
get_node_name(n) == IF n.name = <<>> THEN UNKNOWN ELSE n.name[1]

\* a variant of get_effective_line_range: the start is the definition's own
\* first row, the decorators are left out
get_effective_line_range_own_start(t, p) ==
    <<NodeAt(t, p).start_row + 1, NodeAt(t, p).end_row + 1>>

\* _get_effective_line_range(node), for the node at path p: node.parent is
\* None for the root
get_effective_line_range(t, p) ==
    LET start_row == IF p # <<>> /\ NodeAt(t, Front(p)).type = "decorated_definition"
                     THEN NodeAt(t, Front(p)).start_row
                     ELSE NodeAt(t, p).start_row
    IN  <<start_row + 1, NodeAt(t, p).end_row + 1>>

\* _node_to_scope(node), for the node at path p
node_to_scope(t, p) ==
    LET range == get_effective_line_range(t, p)
    IN  Scope(NODE_TYPE_TO_SCOPE_TYPE(NodeAt(t, p).type), get_node_name(NodeAt(t, p)),
              range[1], range[2])

\* a variant of find_python_scope: the 1-indexed line is used as the row
find_python_scope_row_is_line(t, ln) ==
    LET r == find_innermost_scope_node(t, <<>>, ln)
    IN  [scope |-> IF r.best = <<>> THEN <<>> ELSE <<node_to_scope(t, r.best[1])>>,
         calls |-> r.calls]

\* find_python_scope(tree, line): the Scope as <<>> or <<s>>, with the calls
\* of _find_innermost_scope_node
find_python_scope(t, ln) ==
    LET r == find_innermost_scope_node(t, <<>>, ln - 1)
    IN  [scope |-> IF r.best = <<>> THEN <<>> ELSE <<node_to_scope(t, r.best[1])>>,
         calls |-> r.calls]

\* Language: the members of the enum
Languages == {"python", "javascript", "typescript", "java", "ruby", "go", "php"}

\* what detect_language returns for an unknown extension: None
NoLanguage == "None"

\* a variant of find_enclosing_scope: the Python resolver runs for every language
find_enclosing_scope_any_language(t, ln, lang) ==
    IF ln < 1 THEN [scope |-> <<>>, calls |-> {}]
    ELSE find_python_scope(t, ln)

\* find_enclosing_scope(tree, line, language)
find_enclosing_scope(t, ln, lang) ==
    IF ln < 1 THEN [scope |-> <<>>, calls |-> {}]
    ELSE IF lang = "python" THEN find_python_scope(t, ln)
    ELSE [scope |-> <<>>, calls |-> {}]

\* scope = find_enclosing_scope(tree, line, language)
CallFindScope ==
    /\ apc = "find"
    /\ scope' = find_enclosing_scope(tree, line_no, language).scope
    /\ descended' = find_enclosing_scope(tree, line_no, language).calls
    /\ apc' = "found"
    /\ UNCHANGED <<tree, line_no, language>>
    /\ UNCHANGED <<extract_vars, cache_vars>>
    /\ UNCHANGED <<parse_vars, region_vars>>

----------------------------------------------------------------------------
(* src/diffguard/ast/scope.py: extract_scope_context. *)

\* TRUNCATED_OPEN is the text '\\n... [truncated '
TRUNCATED_OPEN ==
    <<10,46,46,46,32,91,116,114,117,110,99,97,116,101,100,32>>
\* TRUNCATED_CLOSE is the text ' lines]'
TRUNCATED_CLOSE ==
    <<32,108,105,110,101,115,93>>

\* s[a:b] for a list s and any integers a and b: a negative index counts
\* from the end, and both are cut to the bounds of s
PySlice(s, a, b) ==
    LET lo == IF a < 0 THEN Max(Len(s) + a, 0) ELSE Min(a, Len(s))
        hi == IF b < 0 THEN Max(Len(s) + b, 0) ELSE Min(b, Len(s))
    IN  SubSeq(s, lo + 1, hi)

\* str(n) for an integer n: its decimal digits, after "-" when it is negative
RECURSIVE digits_of(_)
digits_of(n) ==
    IF n < 10 THEN <<Zero + n>> ELSE Append(digits_of(n \div 10), Zero + (n % 10))

str_of(n) == IF n < 0 THEN <<Minus>> \o digits_of(0 - n) ELSE digits_of(n)

\* a variant of extract_scope_context: a new file is truncated like any other
extract_scope_context_new_file_truncated(sc, src, lim, new_file) ==
    LET scope_lines == PySlice(src, Max(0, sc.start_line - 1), Min(Len(src), sc.end_line))
        total == Len(scope_lines)
    IN  IF total <= lim
        THEN join_lines(scope_lines)
        ELSE join_lines(PySlice(scope_lines, 0, lim))
                \o TRUNCATED_OPEN \o str_of(total - lim) \o TRUNCATED_CLOSE

\* extract_scope_context(scope, source_lines, limit, is_new_file=...)
extract_scope_context(sc, src, lim, new_file) ==
    LET start_idx == Max(0, sc.start_line - 1)
        end_idx == Min(Len(src), sc.end_line)
        scope_lines == PySlice(src, start_idx, end_idx)
        total == Len(scope_lines)
        truncated_count == total - lim
        kept == PySlice(scope_lines, 0, lim)
    IN  IF new_file \/ total <= lim
        THEN join_lines(scope_lines)
        ELSE join_lines(kept) \o TRUNCATED_OPEN \o str_of(truncated_count)
                \o TRUNCATED_CLOSE

\* text = extract_scope_context(scope, source_lines, limit, is_new_file)
CallExtract ==
    /\ apc = "extract"
    /\ text' = extract_scope_context(scope[1], source_lines, limit, is_new_file)
    /\ apc' = "extracted"
    /\ UNCHANGED <<scope_vars, source_lines, limit, is_new_file>>
    /\ UNCHANGED cache_vars
    /\ UNCHANGED <<parse_vars, region_vars>>

----------------------------------------------------------------------------
(* src/diffguard/ast/parser.py: the parser cache, with get_parser and      *)
(* parse_file called from several threads.  A thread runs one statement of *)
(* get_parser at a time; the interpreter may switch threads between any    *)
(* two of them.  A Parser object is named by its index in parsers.         *)

Threads == 1..NumThreads

\* the languages the callers ask for: every member of Language
CacheLanguages == Languages

\* languages.py: Language.value, the text of each member
language_value(l) ==
    CASE l = "python" -> <<112, 121, 116, 104, 111, 110>>
      [] l = "javascript" -> <<106, 97, 118, 97, 115, 99, 114, 105, 112, 116>>
      [] l = "typescript" -> <<116, 121, 112, 101, 115, 99, 114, 105, 112, 116>>
      [] l = "java" -> <<106, 97, 118, 97>>
      [] l = "ruby" -> <<114, 117, 98, 121>>
      [] l = "go" -> <<103, 111>>
      [] l = "php" -> <<112, 104, 112>>

\* NO_GRAMMAR is the text 'No tree-sitter grammar installed for '
NO_GRAMMAR ==
    <<78, 111, 32, 116, 114, 101, 101, 45, 115, 105, 116, 116, 101, 114, 32, 103, 114, 97, 109, 109, 97, 114, 32, 105, 110, 115, 116, 97, 108, 108, 101, 100, 32, 102, 111, 114, 32>>

\* the message _load_language raises with, without the language
no_grammar_message_unnamed(l) == NO_GRAMMAR

\* f"No tree-sitter grammar installed for {language.value}"
no_grammar_message(l) == NO_GRAMMAR \o language_value(l)

\* exceptions.py: an UnsupportedLanguageError carrying a message
UnsupportedLanguageError(message) ==
    [type |-> "UnsupportedLanguageError", message |-> message]

\* the UnicodeEncodeError bytes(source, "utf-8") raises when source holds a
\* lone surrogate; its message is not part of the model
UnicodeEncodeError == [type |-> "UnicodeEncodeError", message |-> <<>>]

\* what a thread holds of parse_file before parser.parse has run
NotParsed == [tree |-> <<>>, returned |-> <<>>, warned |-> FALSE]

\* thread t calls get_parser(l) or parse_file(source, l)
CallParser(t) ==
    /\ tpc[t] = "idle"
    /\ Len(parsers) < MaxParsers
    /\ \E op \in {"get_parser", "parse_file"}, l \in CacheLanguages :
          targ' = [targ EXCEPT ![t] = [op |-> op, language |-> l]]
    /\ tpc' = [tpc EXCEPT ![t] = "check"]
    /\ tresult' = [tresult EXCEPT ![t] = <<>>]
    /\ traised' = [traised EXCEPT ![t] = <<>>]
    /\ tparsed' = [tparsed EXCEPT ![t] = NotParsed]
    /\ UNCHANGED <<parser_cache, parsers, tparser, issued, loads, retired>>
    /\ UNCHANGED <<scope_vars, extract_vars, apc>>
    /\ UNCHANGED <<parse_vars, region_vars>>

\* where get_parser returns to: parse_file goes on to parser.parse
returned(t) == IF targ[t].op = "parse_file" THEN "parse" ELSE "done"

\* if language in _parser_cache: return _parser_cache[language]
CheckCache(t) ==
    /\ tpc[t] = "check"
    /\ IF parser_cache[targ[t].language] # <<>>
       THEN /\ tresult' = [tresult EXCEPT ![t] = parser_cache[targ[t].language]]
            /\ issued' = [issued EXCEPT ![targ[t].language] =
                             @ \cup {parser_cache[targ[t].language][1]}]
            /\ tpc' = [tpc EXCEPT ![t] = returned(t)]
       ELSE /\ tpc' = [tpc EXCEPT ![t] = "load"]
            /\ UNCHANGED <<tresult, issued>>
    /\ UNCHANGED <<parser_cache, parsers, targ, tparser, traised, tparsed,
                   loads, retired>>
    /\ UNCHANGED <<scope_vars, extract_vars, apc>>
    /\ UNCHANGED <<parse_vars, region_vars>>

\* ts_language = _load_language(language), which loads the grammar of
\* Python and raises UnsupportedLanguageError for every other language
LoadLanguage(t) ==
    /\ tpc[t] = "load"
    /\ IF targ[t].language = "python"
       THEN /\ loads' = [loads EXCEPT !["python"] = @ + 1]
            /\ tpc' = [tpc EXCEPT ![t] = "construct"]
            /\ UNCHANGED traised
       ELSE /\ traised' = [traised EXCEPT ![t] =
                 <<UnsupportedLanguageError(no_grammar_message(targ[t].language))>>]
            /\ tpc' = [tpc EXCEPT ![t] = "raised"]
            /\ UNCHANGED loads
    /\ UNCHANGED <<parser_cache, parsers, targ, tparser, tresult, tparsed,
                   issued, retired>>
    /\ UNCHANGED <<scope_vars, extract_vars, apc>>
    /\ UNCHANGED <<parse_vars, region_vars>>

\* parser = Parser(); parser.language = ts_language
ConstructParser(t) ==
    /\ tpc[t] = "construct"
    /\ parsers' = Append(parsers, targ[t].language)
    /\ tparser' = [tparser EXCEPT ![t] = Len(parsers) + 1]
    /\ tpc' = [tpc EXCEPT ![t] = "store"]
    /\ UNCHANGED <<parser_cache, targ, tresult, traised, tparsed, issued,
                   loads, retired>>
    /\ UNCHANGED <<scope_vars, extract_vars, apc>>
    /\ UNCHANGED <<parse_vars, region_vars>>

\* get_parser returning the new parser without storing it in the cache
StoreParser_not_stored(t) ==
    /\ tpc[t] = "store"
    /\ tresult' = [tresult EXCEPT ![t] = <<tparser[t]>>]
    /\ issued' = [issued EXCEPT ![targ[t].language] = @ \cup {tparser[t]}]
    /\ tpc' = [tpc EXCEPT ![t] = returned(t)]
    /\ UNCHANGED <<parser_cache, parsers, targ, tparser, traised, tparsed,
                   loads, retired>>
    /\ UNCHANGED <<scope_vars, extract_vars, apc>>
    /\ UNCHANGED <<parse_vars, region_vars>>

\* _parser_cache[language] = parser; return parser
StoreParser(t) ==
    /\ tpc[t] = "store"
    /\ parser_cache' = [parser_cache EXCEPT ![targ[t].language] = <<tparser[t]>>]
    /\ tresult' = [tresult EXCEPT ![t] = <<tparser[t]>>]
    /\ issued' = [issued EXCEPT ![targ[t].language] = @ \cup {tparser[t]}]
    /\ tpc' = [tpc EXCEPT ![t] = returned(t)]
    /\ UNCHANGED <<parsers, targ, tparser, traised, tparsed, loads, retired>>
    /\ UNCHANGED <<scope_vars, extract_vars, apc>>
    /\ UNCHANGED <<parse_vars, region_vars>>

\* the root node of a Tree, as far as _is_severely_malformed reads it
Root(has_error, named_children) ==
    [has_error |-> has_error, named_children |-> named_children]

\* _is_severely_malformed, looking at the root's has_error alone
is_severely_malformed_any_error(root) == root.has_error

\* _is_severely_malformed(tree)
is_severely_malformed(root) ==
    IF ~root.has_error
    THEN FALSE
    ELSE IF root.named_children = <<>>
    THEN TRUE
    ELSE \A i \in 1..Len(root.named_children) : root.named_children[i] = "ERROR"

\* parse_file from "if tree is None" on, for the outcome o of parser.parse:
\* <<>> is None, <<root>> a Tree
parse_file_result(o) ==
    IF o = <<>>
    THEN [tree |-> o, returned |-> <<>>, warned |-> FALSE]
    ELSE IF is_severely_malformed(o[1])
    THEN [tree |-> o, returned |-> <<>>, warned |-> TRUE]
    ELSE [tree |-> o, returned |-> o, warned |-> FALSE]

\* the types of the named children of a root: the error marker, a comment
\* and a definition
ChildTypes == {"ERROR", "comment", "function_definition"}

\* the roots tree-sitter can produce: has_error is set on every node with an
\* ERROR node below it, and also by errors that are no child of the root
Roots ==
    {Root(e, c) : e \in BOOLEAN,
                  c \in UNION {[1..k -> ChildTypes] : k \in 0..MaxNamedChildren}}
    \ {r \in [has_error : {FALSE},
              named_children :
                  UNION {[1..k -> ChildTypes] : k \in 0..MaxNamedChildren}] :
          \E i \in 1..Len(r.named_children) : r.named_children[i] = "ERROR"}

\* what parser.parse can hand back: None or a Tree
ParseOutcomes == {<<>>} \cup {<<r>> : r \in Roots}

\* parse_file after get_parser: bytes(source, "utf-8"), which raises on a
\* lone surrogate, then tree = parser.parse(...) and the rest of the function
ParseSource(t) ==
    /\ tpc[t] = "parse"
    /\ \/ /\ traised' = [traised EXCEPT ![t] = <<UnicodeEncodeError>>]
          /\ tpc' = [tpc EXCEPT ![t] = "raised"]
          /\ UNCHANGED tparsed
       \/ /\ \E o \in ParseOutcomes :
                tparsed' = [tparsed EXCEPT ![t] = parse_file_result(o)]
          /\ tpc' = [tpc EXCEPT ![t] = "done"]
          /\ UNCHANGED traised
    /\ UNCHANGED <<parser_cache, parsers, targ, tparser, tresult, issued,
                   loads, retired>>
    /\ UNCHANGED <<scope_vars, extract_vars, apc>>
    /\ UNCHANGED <<parse_vars, region_vars>>

\* the call of thread t has returned or raised, and t is free to call again
ReturnToCaller(t) ==
    /\ tpc[t] \in {"done", "raised"}
    /\ tpc' = [tpc EXCEPT ![t] = "idle"]
    /\ UNCHANGED <<parser_cache, parsers, targ, tparser, tresult, traised,
                   tparsed, issued, loads, retired>>
    /\ UNCHANGED <<scope_vars, extract_vars, apc>>
    /\ UNCHANGED <<parse_vars, region_vars>>

\* thread t, between two of its calls, calls clear_parser_cache():
\* _parser_cache.clear()
ClearCache(t) ==
    /\ tpc[t] = "idle"
    /\ parser_cache' = [l \in Languages |-> <<>>]
    /\ retired' = retired \cup UNION {issued[l] : l \in Languages}
    /\ issued' = [l \in Languages |-> {}]
    /\ loads' = [l \in Languages |-> 0]
    /\ UNCHANGED <<parsers, tpc, targ, tparser, tresult, traised, tparsed>>
    /\ UNCHANGED <<scope_vars, extract_vars, apc>>
    /\ UNCHANGED <<parse_vars, region_vars>>

CacheNext ==
    \E t \in Threads :
        \/ CallParser(t)
        \/ CheckCache(t)
        \/ LoadLanguage(t)
        \/ ConstructParser(t)
        \/ StoreParser(t)
        \/ ParseSource(t)

\* the same steps, with callers that call again and clear the cache
CallsNext ==
    \/ CacheNext
    \/ \E t \in Threads : ReturnToCaller(t)
    \/ \E t \in Threads : ClearCache(t)

----------------------------------------------------------------------------
(* Inputs. *)

\* the sequences over S of length at most n
SeqsUpTo(S, n) == UNION {[1..k -> S] : k \in 0..n}

\* L_header_x is the text 'diff --git a/x b/x'
L_header_x ==
    <<100,105,102,102,32,45,45,103,105,116,32,97,47,120,32,98,47,120>>
\* L_header_y is the text 'diff --git a/y b/y'
L_header_y ==
    <<100,105,102,102,32,45,45,103,105,116,32,97,47,121,32,98,47,121>>
\* L_hunk is the text '@@ -1 +1,2 @@'
L_hunk ==
    <<64,64,32,45,49,32,43,49,44,50,32,64,64>>
\* L_plus_hunk is the text '+@@ -1 +1 @@'
L_plus_hunk ==
    <<43,64,64,32,45,49,32,43,49,32,64,64>>
\* L_minus_path is the text '--- a/z'
L_minus_path ==
    <<45,45,45,32,97,47,122>>
\* L_context is the text ' c'
L_context ==
    <<32,99>>
\* L_marker is the text '\ No newline'
L_marker ==
    <<92,32,78,111,32,110,101,119,108,105,110,101>>
\* L_new_file is the text 'new file mode 100644'
L_new_file ==
    <<110,101,119,32,102,105,108,101,32,109,111,100,101,32,49,48,48,54,52,52>>
\* L_empty is the empty line
L_empty ==
    <<>>

\* the lines the inputs of SpecParse are made of
ParseAlphabet ==
    {L_header_x, L_header_y, L_hunk, L_plus_hunk, L_minus_path, L_context,
     L_marker, L_new_file, L_empty}

\* the scope resolver at rest
ScopeIdle ==
    /\ tree = Node("module", <<>>, 0, 0, <<>>)
    /\ line_no = 1
    /\ language = "python"
    /\ scope = <<>>
    /\ descended = {}

\* extract_scope_context at rest
ExtractIdle ==
    /\ source_lines = <<>>
    /\ limit = 0
    /\ is_new_file = FALSE
    /\ text = <<>>

\* the parser cache of a process that starts no thread
CacheIdle ==
    /\ parser_cache = [l \in Languages |-> <<>>]
    /\ parsers = <<>>
    /\ tpc = [t \in Threads |-> "off"]
    /\ targ = [t \in Threads |-> [op |-> "get_parser", language |-> "python"]]
    /\ tparser = [t \in Threads |-> 0]
    /\ tresult = [t \in Threads |-> <<>>]
    /\ traised = [t \in Threads |-> <<>>]
    /\ tparsed = [t \in Threads |-> NotParsed]
    /\ issued = [l \in Languages |-> {}]
    /\ loads = [l \in Languages |-> 0]
    /\ retired = {}

AstIdle == ScopeIdle /\ ExtractIdle /\ apc = "idle" /\ CacheIdle

\* the region builder at rest
RegionIdle ==
    /\ regions = <<>>
    /\ merged = <<>>
    /\ remerged = <<>>
    /\ hunk = DiffHunk(1, 1, 1, 1)
    /\ expansion = 0
    /\ file_length = <<>>
    /\ region = <<>>
    /\ diff_file = <<>>
    /\ built = <<>>
    /\ objects = <<>>
    /\ arg_list = <<>>
    /\ result_list = <<>>
    /\ rpc = "idle"

\* parse_diff at rest
ParseIdle ==
    /\ diff_string = <<>>
    /\ lines = <<>>
    /\ idx = 0
    /\ files = <<>>
    /\ current_file = <<>>
    /\ current_hunk = 0
    /\ pc = "idle"

\* parse_diff called on a text of at most n lines of the alphabet
ParseCalledUpTo(alphabet, n) ==
    /\ diff_string \in {join_lines(ls) : ls \in SeqsUpTo(alphabet, n)}
    /\ lines = <<>>
    /\ idx = 0
    /\ files = <<>>
    /\ current_file = <<>>
    /\ current_hunk = 0
    /\ pc = "start"

\* parse_diff called on a text of at most MaxLines lines of the alphabet
ParseCalled(alphabet) ==
    /\ diff_string \in {join_lines(ls) : ls \in SeqsUpTo(alphabet, MaxLines)}
    /\ lines = <<>>
    /\ idx = 0
    /\ files = <<>>
    /\ current_file = <<>>
    /\ current_hunk = 0
    /\ pc = "start"

InitParse == ParseCalled(ParseAlphabet) /\ RegionIdle /\ AstIdle

SpecParse == InitParse /\ [][ParseNext]_vars


MergeNext ==
    \/ CallMerge
    \/ CallMergeAgain

\* the Regions merge_regions is handed: every pair of line numbers, also the
\* inverted ones expand_hunk returns for a hunk past the end of the file
RegionInputs == {Region(s, e) : s \in 1..MaxRegionLine, e \in 1..MaxRegionLine}

\* merge_regions called on a list of at most MaxRegions regions
InitMerge ==
    /\ ParseIdle
    /\ AstIdle
    /\ \E k \in 0..MaxRegions : regions \in [1..k -> RegionInputs]
    /\ merged = <<>>
    /\ remerged = <<>>
    /\ hunk = DiffHunk(1, 1, 1, 1)
    /\ expansion = 0
    /\ file_length = <<>>
    /\ region = <<>>
    /\ diff_file = <<>>
    /\ built = <<>>
    /\ objects = <<>>
    /\ arg_list = <<>>
    /\ result_list = <<>>
    /\ rpc = "call"

SpecMerge == InitMerge /\ [][MergeNext]_vars

ObjectsNext ==
    \/ CallMergeObjects
    \/ ChangeReturned

\* the Regions the objects hold at first: two that overlap, one adjacent to
\* the second, one apart
ObjectInputs == {Region(1, 2), Region(2, 3), Region(4, 4), Region(6, 6)}

\* merge_regions called on a list of at most MaxRegions references to at most
\* MaxObjects objects, so that a list can hold one object more than once
InitObjects ==
    /\ ParseIdle
    /\ AstIdle
    /\ regions = <<>>
    /\ merged = <<>>
    /\ remerged = <<>>
    /\ hunk = DiffHunk(1, 1, 1, 1)
    /\ expansion = 0
    /\ file_length = <<>>
    /\ region = <<>>
    /\ diff_file = <<>>
    /\ built = <<>>
    /\ \E n \in 0..MaxObjects :
          /\ objects \in [1..n -> ObjectInputs]
          /\ \E k \in 0..MaxRegions : arg_list \in [1..k -> 1..n]
    /\ result_list = <<>>
    /\ rpc = "objects"

SpecObjects == InitObjects /\ [][ObjectsNext]_vars


ExpandNext == CallExpand

\* the hunks expand_hunk is handed: it reads new_start and new_count only
HunkInputs ==
    {DiffHunk(1, 1, ns, nc) : ns \in 0..MaxLineNo, nc \in 0..MaxLineNo}

\* expand_hunk called with and without a file_length
InitExpand ==
    /\ ParseIdle
    /\ AstIdle
    /\ regions = <<>>
    /\ merged = <<>>
    /\ remerged = <<>>
    /\ hunk \in HunkInputs
    /\ expansion \in 0..MaxExpansion
    /\ file_length \in {<<>>} \cup {<<n>> : n \in 0..MaxLineNo}
    /\ region = <<>>
    /\ diff_file = <<>>
    /\ built = <<>>
    /\ objects = <<>>
    /\ arg_list = <<>>
    /\ result_list = <<>>
    /\ rpc = "expand"

SpecExpand == InitExpand /\ [][ExpandNext]_vars

\* Q_header_octal is the text 'diff --git "a/\303\251" "b/\303\251"'
Q_header_octal ==
    <<100,105,102,102,32,45,45,103,105,116,32,34,97,47,92,51,48,51,92,50,53,49,34,32,34,98,47,92,51,48,51,92,50,53,49,34>>
\* Q_header_second is the text 'diff --git a/x "b/y\tz"'
Q_header_second ==
    <<100,105,102,102,32,45,45,103,105,116,32,97,47,120,32,34,98,47,121,92,116,122,34>>
\* Q_minus_bad is the text '--- "a/\8"'
Q_minus_bad ==
    <<45,45,45,32,34,97,47,92,56,34>>
\* Q_rename_from is the text 'rename from "x\ty"'
Q_rename_from ==
    <<114,101,110,97,109,101,32,102,114,111,109,32,34,120,92,116,121,34>>
\* Q_plus_octal is the text '+++ "b/\303\251"'
Q_plus_octal ==
    <<43,43,43,32,34,98,47,92,51,48,51,92,50,53,49,34>>
\* Q_hunk is the text '@@ -1 +1 @@'
Q_hunk ==
    <<64,64,32,45,49,32,43,49,32,64,64>>
\* Q_marker is the text '\'
Q_marker ==
    <<92>>

\* the lines the inputs of SpecQuoted are made of: C-style quoted paths
QuotedAlphabet ==
    {Q_header_octal, Q_header_second, Q_minus_bad, Q_rename_from, Q_plus_octal,
     Q_hunk, Q_marker}

InitQuoted == ParseCalled(QuotedAlphabet) /\ RegionIdle /\ AstIdle

SpecQuoted == InitQuoted /\ [][ParseNext]_vars

\* L_deleted is the text 'deleted file mode 100644'
L_deleted ==
    <<100,101,108,101,116,101,100,32,102,105,108,101,32,109,111,100,101,32,49,48,48,54,52,52>>
\* L_binary is the text 'Binary files a/x and b/x differ'
L_binary ==
    <<66,105,110,97,114,121,32,102,105,108,101,115,32,97,47,120,32,97,110,100,32,98,47,120,32,100,105,102,102,101,114>>
\* L_hunk_far is the text '@@ -4 +5 @@'
L_hunk_far ==
    <<64,64,32,45,52,32,43,53,32,64,64>>

\* L_hunk_zero is the text '@@ -1,0 +0,0 @@'
L_hunk_zero ==
    <<64,64,32,45,49,44,48,32,43,48,44,48,32,64,64>>
\* the lines the inputs of SpecBuild are made of: the flags and hunks
\* build_file_regions reads
BuildAlphabet ==
    {L_header_x, L_new_file, L_deleted, L_binary, L_hunk, L_hunk_far,
     L_hunk_zero, L_context, L_marker}

BuildNext == ParseNext \/ CallBuild

\* parse_diff called on a short diff; build_file_regions is then called on a
\* DiffFile of its result
InitBuild ==
    ParseCalledUpTo(BuildAlphabet, MaxBuildLines) /\ RegionIdle /\ AstIdle

SpecBuild == InitBuild /\ [][BuildNext]_vars

\* parse_diff on hunk headers with and without counts, counts of 0 and text
\* after the closing @@
\* L_hunk_tail is the text '@@ -2,3 +4 @@ def f'
L_hunk_tail ==
    <<64,64,32,45,50,44,51,32,43,52,32,64,64,32,100,101,102,32,102>>

\* the lines of the hunk header inputs
HunkAlphabet ==
    {L_header_x, L_hunk, L_hunk_zero, L_hunk_tail, L_context, L_plus_hunk,
     L_marker}

InitHunks == ParseCalled(HunkAlphabet) /\ RegionIdle /\ AstIdle

SpecHunks == InitHunks /\ [][ParseNext]_vars

\* parse_diff on the metadata lines of a file, /dev/null paths among them
\* L_old_mode is the text 'old mode 100644'
L_old_mode ==
    <<111,108,100,32,109,111,100,101,32,49,48,48,54,52,52>>
\* L_new_mode is the text 'new mode 100755'
L_new_mode ==
    <<110,101,119,32,109,111,100,101,32,49,48,48,55,53,53>>
\* L_rename_from is the text 'rename from p'
L_rename_from ==
    <<114,101,110,97,109,101,32,102,114,111,109,32,112>>
\* L_rename_to is the text 'rename to q'
L_rename_to ==
    <<114,101,110,97,109,101,32,116,111,32,113>>
\* L_minus_null is the text '--- /dev/null'
L_minus_null ==
    <<45,45,45,32,47,100,101,118,47,110,117,108,108>>
\* L_plus_null is the text '+++ /dev/null'
L_plus_null ==
    <<43,43,43,32,47,100,101,118,47,110,117,108,108>>
\* L_plus_path is the text '+++ b/w'
L_plus_path ==
    <<43,43,43,32,98,47,119>>

\* the lines of the metadata inputs
MetaAlphabet ==
    {L_header_x, L_new_file, L_deleted, L_old_mode, L_new_mode, L_rename_from,
     L_rename_to, L_binary, L_minus_null, L_plus_null, L_minus_path,
     L_plus_path, L_hunk, L_marker}

InitMeta ==
    ParseCalledUpTo(MetaAlphabet, MaxMetaLines) /\ RegionIdle /\ AstIdle

SpecMeta == InitMeta /\ [][ParseNext]_vars

\* a node without children
Leaf(type, s, e) == Node(type, <<>>, s, e, <<>>)

\* the name of the definition that starts on row s: "n0", "n1", ...
DefName(s) == <<110, Zero + s>>

\* the node types of Python's function and class definitions
DefKinds == {"function_definition", "class_definition"}

\* the simple statements on row s: an expression statement holding a lambda
\* or a list comprehension
SimpleStmts(s) ==
    {Node("expression_statement", <<>>, s, s, <<Leaf(k, s, s)>>) :
        k \in {"lambda", "list_comprehension"}}

\* The trees of Python sources, as tree-sitter shapes them: Stmts(lo, hi, d)
\* are the statement lists that fit in rows lo..hi, each statement starting
\* on a row after the one before it ends, with definitions nested at most d
\* deep; Stmt(s, e, d) are the statements that span rows s..e; Defs(s, e, d)
\* the function and class definitions that do, whose block ends on row e.
RECURSIVE Stmts(_, _, _)
RECURSIVE Stmt(_, _, _)
RECURSIVE Defs(_, _, _)
Stmts(lo, hi, d) ==
    IF lo > hi THEN {<<>>}
    ELSE {<<>>} \cup
         UNION {{<<st>> \o rest : st \in Stmt(se[1], se[2], d),
                                  rest \in Stmts(se[2] + 1, hi, d)} :
                se \in {x \in (lo..hi) \X (lo..hi) : x[1] <= x[2]}}

Defs(s, e, d) ==
    IF d < 1 THEN {}
    ELSE IF s = e
    THEN {Node(kind, <<DefName(s)>>, s, s,
               <<Leaf("identifier", s, s),
                 Node("block", <<>>, s, s, <<Leaf("pass_statement", s, s)>>)>>) :
             kind \in DefKinds}
    ELSE {Node(kb[1], <<DefName(s)>>, s, e,
               <<Leaf("identifier", s, s),
                 Node("block", <<>>, kb[2][1].start_row, e, kb[2])>>) :
             kb \in DefKinds \X
                    {b \in Stmts(s + 1, e, d - 1) :
                        b # <<>> /\ b[Len(b)].end_row = e}}

Stmt(s, e, d) ==
    (IF s = e THEN SimpleStmts(s) ELSE {})
    \cup Defs(s, e, d)
    \cup UNION {{Node("decorated_definition", <<>>, s, e,
                      [i \in 1..k |-> Leaf("decorator", s + i - 1, s + i - 1)]
                         \o <<def>>) :
                    def \in Defs(s + k, e, d)} :
                k \in {j \in 1..MaxDecorators : s + j <= e}}

\* the root nodes of the trees of the sources of rows 0..MaxRow
Trees == {Node("module", <<>>, 0, MaxRow, ss) : ss \in Stmts(0, MaxRow, MaxDepth)}

\* find_enclosing_scope called on a tree, with a line from 0 (below the first
\* line) to MaxRow + 2 (beyond the last) and a language or None
InitScope ==
    /\ ParseIdle
    /\ RegionIdle
    /\ ExtractIdle
    /\ CacheIdle
    /\ tree \in Trees
    /\ line_no \in 0..(MaxRow + 2)
    /\ language \in Languages \cup {NoLanguage}
    /\ scope = <<>>
    /\ descended = {}
    /\ apc = "find"

ScopeNext == CallFindScope

SpecScope == InitScope /\ [][ScopeNext]_vars

\* the lines of the sources handed to extract_scope_context: 'a', 'b' and
\* the empty line
LineTexts == {<<97>>, <<98>>, <<>>}

\* the Scopes handed to extract_scope_context: every pair of line numbers from
\* 0 to one past the longest source
ScopeInputs ==
    {Scope("function", DefName(0), a, b) :
        a \in 0..(MaxSourceLines + 1), b \in 0..(MaxSourceLines + 1)}

\* extract_scope_context called on a scope, a source, a limit and the flag
InitExtract ==
    /\ ParseIdle
    /\ RegionIdle
    /\ CacheIdle
    /\ tree = Node("module", <<>>, 0, 0, <<>>)
    /\ line_no = 1
    /\ language = "python"
    /\ descended = {}
    /\ scope \in {<<sc>> : sc \in ScopeInputs}
    /\ \E k \in 0..MaxSourceLines : source_lines \in [1..k -> LineTexts]
    /\ limit \in 0..MaxLimit
    /\ is_new_file \in BOOLEAN
    /\ text = <<>>
    /\ apc = "extract"

ExtractNext == CallExtract

SpecExtract == InitExtract /\ [][ExtractNext]_vars

\* get_parser and parse_file called by NumThreads threads of a process whose
\* parser cache is empty
InitCache ==
    /\ ParseIdle
    /\ RegionIdle
    /\ ScopeIdle
    /\ ExtractIdle
    /\ apc = "idle"
    /\ parser_cache = [l \in Languages |-> <<>>]
    /\ parsers = <<>>
    /\ tpc = [t \in Threads |-> "idle"]
    /\ targ = [t \in Threads |-> [op |-> "get_parser", language |-> "python"]]
    /\ tparser = [t \in Threads |-> 0]
    /\ tresult = [t \in Threads |-> <<>>]
    /\ traised = [t \in Threads |-> <<>>]
    /\ tparsed = [t \in Threads |-> NotParsed]
    /\ issued = [l \in Languages |-> {}]
    /\ loads = [l \in Languages |-> 0]
    /\ retired = {}

SpecCache == InitCache /\ [][CacheNext]_vars

\* one caller making one call after another, clearing the cache in between
\* as it pleases, in a process whose parser cache is empty
InitCalls ==
    /\ ParseIdle
    /\ RegionIdle
    /\ ScopeIdle
    /\ ExtractIdle
    /\ apc = "idle"
    /\ parser_cache = [l \in Languages |-> <<>>]
    /\ parsers = <<>>
    /\ tpc = [t \in Threads |-> IF t = 1 THEN "idle" ELSE "off"]
    /\ targ = [t \in Threads |-> [op |-> "get_parser", language |-> "python"]]
    /\ tparser = [t \in Threads |-> 0]
    /\ tresult = [t \in Threads |-> <<>>]
    /\ traised = [t \in Threads |-> <<>>]
    /\ tparsed = [t \in Threads |-> NotParsed]
    /\ issued = [l \in Languages |-> {}]
    /\ loads = [l \in Languages |-> 0]
    /\ retired = {}

SpecCalls == InitCalls /\ [][CallsNext]_vars

Init ==
    \/ InitParse
    \/ InitQuoted
    \/ InitMerge
    \/ InitExpand
    \/ InitObjects
    \/ InitBuild
    \/ InitScope
    \/ InitExtract
    \/ InitCache
    \/ InitCalls

Next ==
    \/ ParseNext
    \/ MergeNext
    \/ ExpandNext
    \/ ObjectsNext
    \/ CallBuild
    \/ ScopeNext
    \/ ExtractNext
    \/ CallsNext

Spec == Init /\ [][Next]_vars

----------------------------------------------------------------------------
(* Properties of parse_diff. *)

\* the lines of ls that start "diff --git ", in order
HeaderLines(ls) == SelectSeq(ls, LAMBDA l : startswith(l, DIFF_GIT))

\* whether l begins with a space, "+" or "-"
BeginsLikeEdit(l) == l # <<>> /\ l[1] \in {32, 43, 45}

\* C1: parse_diff never raises, whatever the text and whatever escapes its
\* quoted paths carry.
C1_NeverRaises == pc # "raised"

\* C2: while a hunk is open, a line whose first character is a space, "+" or
\* "-" is appended to that hunk as (first character, rest) and changes
\* nothing else: no flag, no path, no other hunk, no new hunk, not the result.
C2_EditLineOnlyAppends ==
    [][ ( /\ pc = "loop"
          /\ idx < Len(lines)
          /\ current_file # <<>>
          /\ current_hunk # 0
          /\ BeginsLikeEdit(lines[idx + 1]) )
        => LET l == lines[idx + 1]
               f == current_file[1]
           IN  /\ current_file' # <<>>
               /\ current_file'[1].old_path = f.old_path
               /\ current_file'[1].new_path = f.new_path
               /\ current_file'[1].is_new_file = f.is_new_file
               /\ current_file'[1].is_deleted = f.is_deleted
               /\ current_file'[1].is_renamed = f.is_renamed
               /\ current_file'[1].is_binary = f.is_binary
               /\ current_file'[1].mode_changed = f.mode_changed
               /\ Len(current_file'[1].hunks) = Len(f.hunks)
               /\ \A k \in 1..Len(f.hunks) :
                     current_file'[1].hunks[k] =
                        IF k = current_hunk
                        THEN [f.hunks[k] EXCEPT
                                !.lines = f.hunks[k].lines \o <<<<l[1], Tail(l)>>>>]
                        ELSE f.hunks[k]
               /\ current_hunk' = current_hunk
               /\ files' = files
               /\ pc' = "loop"
      ]_vars

\* a parse that consumed "+@@ -1 +1 @@" and "--- a/z" inside the hunk of x
C2_Witness ==
    /\ pc = "done"
    /\ lines = <<L_header_x, L_hunk, L_plus_hunk, L_minus_path>>
    /\ Len(files) = 1
    /\ files[1].old_path = <<120>>
    /\ Len(files[1].hunks) = 1
    /\ Len(files[1].hunks[1].lines) = 2

\* C3: the result holds one DiffFile per line starting "diff --git ", in the
\* order of those lines (the k-th file carries the new path of the k-th
\* header); during the loop the files appended so far and the open one are
\* the headers consumed so far; blank text gives the empty list.
C3_OneFilePerHeader ==
    /\ pc = "done" =>
          LET hs == HeaderLines(split_lines(diff_string))
          IN  /\ Len(files) = Len(hs)
              /\ \A k \in 1..Len(hs) :
                    files[k].new_path = From(hs[k], find(hs[k], SP_B_SLASH) + 3)
    /\ pc = "loop" =>
          Len(files) + Len(current_file) = Len(HeaderLines(SubSeq(lines, 1, idx)))
    /\ (pc = "done" /\ isblank(diff_string)) => files = <<>>

\* a parse of two headers, x then y, with other lines around them
C3_Witness ==
    /\ pc = "done"
    /\ lines = <<L_header_x, L_new_file, L_header_y, L_empty>>
    /\ Len(files) = 2
    /\ files[1].new_path = <<120>>
    /\ files[2].new_path = <<121>>

\* the hunks of the files fs, in order
RECURSIVE AllHunks(_)
AllHunks(fs) ==
    IF fs = <<>> THEN <<>> ELSE fs[1].hunks \o AllHunks(Tail(fs))

\* whether line i of ls is a hunk header or a "diff --git " header
IsBoundary(ls, i) ==
    hunk_header_match(ls[i]).matched \/ startswith(ls[i], DIFF_GIT)

\* the edits the hunk opened by line i of ls must hold: the lines after i and
\* before the next boundary that begin like an edit, as (first character, rest)
ExpectedEdits(ls, i) ==
    LET later == {j \in (i + 1)..Len(ls) : IsBoundary(ls, j)}
        stop == IF later = {} THEN Len(ls) + 1
                ELSE CHOOSE j \in later : \A m \in later : j <= m
        body == SelectSeq(SubSeq(ls, i + 1, stop - 1), BeginsLikeEdit)
    IN  [k \in 1..Len(body) |-> <<body[k][1], Tail(body[k])>>]

\* the edit lists of the hunks ls opens, in order: a hunk header opens a hunk
\* when a "diff --git " header precedes it
RECURSIVE ExpectedHunkEdits(_, _)
ExpectedHunkEdits(ls, i) ==
    IF i > Len(ls) THEN <<>>
    ELSE IF /\ hunk_header_match(ls[i]).matched
            /\ \E j \in 1..(i - 1) : startswith(ls[j], DIFF_GIT)
         THEN <<ExpectedEdits(ls, i)>> \o ExpectedHunkEdits(ls, i + 1)
         ELSE ExpectedHunkEdits(ls, i + 1)

\* C4: the edits of each hunk of the result are exactly the edit-like lines
\* between its header and the next hunk or file header, in order and with
\* their text unchanged; a "\" line or another line in between adds nothing
\* and does not close the hunk.
C4_HunkEditsExact ==
    (pc = "done" /\ ~isblank(diff_string)) =>
        LET hs == AllHunks(files)
        IN  [k \in 1..Len(hs) |-> hs[k].lines] = ExpectedHunkEdits(lines, 1)

\* a parse where a "\" line and a metadata line stand between header and edit
C4_Witness ==
    /\ pc = "done"
    /\ \/ lines = <<L_header_x, L_hunk, L_marker, L_context>>
       \/ lines = <<L_header_x, L_hunk, L_new_file, L_context>>
    /\ Len(files) = 1
    /\ Len(files[1].hunks) = 1
    /\ files[1].hunks[1].lines = <<<<32, <<99>>>>>>

\* the file names the lines of QuotedAlphabet stand for: x, e with an acute
\* accent (U+00E9, the UTF-8 bytes \303\251), y TAB z and x TAB y
QuotedNames == {<<120>>, <<233>>, <<121, 9, 122>>, <<120, 9, 121>>}

\* C5: every stored old and new path is the unquoted, unescaped UTF-8 name,
\* without quotes, escapes or a/ b/ prefixes.
C5_PathsUnquoted ==
    pc = "done" =>
        \A k \in 1..Len(files) :
            files[k].old_path \in QuotedNames /\ files[k].new_path \in QuotedNames

----------------------------------------------------------------------------
(* Properties of merge_regions and expand_hunk. *)

\* whether region r covers line n
Covers(r, n) == r.start_line <= n /\ n <= r.end_line

\* whether some region of rs covers line n
Covered(rs, n) == \E i \in 1..Len(rs) : Covers(rs[i], n)

MergeDone == rpc \in {"merged", "remerged"}

\* C6: the result of merge_regions is sorted ascending by start_line, its
\* regions share no line, and consecutive regions leave at least one line
\* uncovered between them.
C6_MergedSortedDisjoint ==
    MergeDone =>
        /\ \A i \in 1..(Len(merged) - 1) :
              /\ merged[i].start_line <= merged[i + 1].start_line
              /\ merged[i + 1].start_line > merged[i].end_line + 1
        /\ \A i, j \in 1..Len(merged) :
              i # j => ~\E n \in 1..(MaxRegionLine + 1) :
                          Covers(merged[i], n) /\ Covers(merged[j], n)

\* an unsorted input whose result holds two regions in ascending order
C6_Witness ==
    /\ rpc = "merged"
    /\ regions = <<Region(4, 4), Region(1, 1), Region(2, 2)>>
    /\ merged = <<Region(1, 2), Region(4, 4)>>

\* C7: regions that overlap or are exactly adjacent end up in one region,
\* regions with an uncovered line between them stay apart, and the result
\* covers no line the input does not cover; for two sorted non-empty regions
\* the result is one region exactly when second.start_line <=
\* first.end_line + 1.
C7_MergeBoundary ==
    MergeDone =>
        /\ \A n \in 0..(MaxRegionLine + 2) :
              Covered(merged, n) => Covered(regions, n)
        /\ \A n \in 1..MaxRegionLine :
              (Covered(regions, n) /\ Covered(regions, n + 1)) =>
                  \E j \in 1..Len(merged) :
                      Covers(merged[j], n) /\ Covers(merged[j], n + 1)
        /\ ( /\ Len(regions) = 2
             /\ regions[1].start_line <= regions[1].end_line
             /\ regions[2].start_line <= regions[2].end_line
             /\ regions[1].start_line <= regions[2].start_line ) =>
              (Len(merged) = 1 <=>
                  regions[2].start_line <= regions[1].end_line + 1)

\* adjacent regions merged, a gap of one line (line 3) kept
C7_Witness ==
    /\ rpc = "merged"
    /\ regions = <<Region(1, 1), Region(2, 2), Region(4, 4)>>
    /\ merged = <<Region(1, 2), Region(4, 4)>>

\* C8: every line an input region covers is covered by the result.
C8_CoverageKept ==
    MergeDone =>
        \A n \in 1..MaxRegionLine : Covered(regions, n) => Covered(merged, n)

\* an unsorted input with overlapping and nested regions, merged into one
C8_Witness ==
    /\ rpc = "merged"
    /\ regions = <<Region(2, 4), Region(1, 3), Region(3, 3)>>
    /\ merged = <<Region(1, 4)>>

\* C9: merging the result of merge_regions again returns the same list.
C9_MergeIdempotent == rpc = "remerged" => remerged = merged

\* a second merge of a result that holds two regions, one of them merged from two
C9_Witness ==
    /\ rpc = "remerged"
    /\ regions = <<Region(3, 4), Region(1, 1), Region(1, 1)>>
    /\ merged = <<Region(1, 1), Region(3, 4)>>
    /\ remerged = merged

\* the Region the claim's formula gives for the call in the current state:
\* Region(max(1, new_start - e), E), E cut to min(L, E) when L is given
ClaimedRegion ==
    LET counted == IF hunk.new_count >= 1 THEN hunk.new_count ELSE 1
        E == hunk.new_start + counted - 1 + expansion
    IN  Region(IF hunk.new_start - expansion >= 1
               THEN hunk.new_start - expansion ELSE 1,
               IF file_length # <<>> /\ file_length[1] < E
               THEN file_length[1] ELSE E)

\* the call the claim gives as its example: the hunk +10,7, e = 3, no file_length
ExampleCall ==
    /\ hunk.new_start = 10
    /\ hunk.new_count = 7
    /\ expansion = 3
    /\ file_length = <<>>

\* C10 as stated: expand_hunk returns Region(max(1, new_start - e), E) with
\* E = new_start + max(new_count, 1) - 1 + e, cut to min(L, E) when a
\* file_length L is given; so start_line >= 1, and end_line <= L when L is
\* given; and the hunk +10,7 with e = 3 gives Region(7, 17).
C10_AsStated ==
    rpc = "expanded" =>
        /\ region[1] = ClaimedRegion
        /\ region[1].start_line >= 1
        /\ file_length # <<>> => region[1].end_line <= file_length[1]
        /\ ExampleCall => region[1] = Region(7, 17)

\* C10, amended: the same formula and bounds; the hunk +10,7 with e = 3
\* gives Region(7, 19), as the formula itself says (E = 10 + 7 - 1 + 3).
C10_ExpandFormula ==
    rpc = "expanded" =>
        /\ region[1] = ClaimedRegion
        /\ region[1].start_line >= 1
        /\ file_length # <<>> => region[1].end_line <= file_length[1]
        /\ ExampleCall => region[1] = Region(7, 19)

\* the hunk +10,7 expanded by 3 without a file length
C10_Witness ==
    /\ rpc = "expanded"
    /\ ExampleCall
    /\ region = <<Region(7, 19)>>

\* C11: the Region expand_hunk returns is never inverted or empty
\* (start_line <= end_line), for every hunk the parser can produce, a pure
\* deletion (new_count = 0) and a hunk with new_start = 0 included, every
\* expansion and every file_length.
C11_NeverInverted ==
    rpc = "expanded" => region[1].start_line <= region[1].end_line

----------------------------------------------------------------------------
(* Properties of build_file_regions. *)

\* C12: for a DiffFile with is_new_file set, build_file_regions returns
\* exactly one region, Region(1, file_length), whatever its hunks, its other
\* flags and the expansion.
C12_NewFileWholeRegion ==
    (rpc = "built" /\ diff_file[1].is_new_file) =>
        built = <<Region(1, file_length[1])>>

\* a new file with a hunk on lines 1-2, in a file of 5 lines
C12_Witness ==
    /\ rpc = "built"
    /\ lines = <<L_header_x, L_new_file, L_hunk>>
    /\ diff_file[1].is_new_file
    /\ Len(diff_file[1].hunks) = 1
    /\ file_length = <<5>>
    /\ expansion = 0
    /\ built = <<Region(1, 5)>>

\* C13: for a DiffFile that is deleted, or binary, or has no hunks,
\* build_file_regions returns the empty list; this covers every such DiffFile
\* parse_diff returns, the one parsed from "new file mode" followed by
\* "Binary files ... differ" included.
C13_NothingToShow ==
    ( /\ rpc = "built"
      /\ \/ diff_file[1].is_deleted
         \/ diff_file[1].is_binary
         \/ diff_file[1].hunks = <<>> ) =>
        built = <<>>

----------------------------------------------------------------------------
(* Properties of the scope resolver. *)

\* the paths of the nodes of the tree below n, n itself included
RECURSIVE AllPaths(_)
AllPaths(n) ==
    {<<>>} \cup UNION {{<<i>> \o q : q \in AllPaths(n.children[i])} :
                         i \in 1..Len(n.children)}

\* whether path p is a proper prefix of q: the node at q lies inside the one at p
Inside(p, q) == Len(p) < Len(q) /\ SubSeq(q, 1, Len(p)) = p

\* whether the node at p is a function or class definition
IsDef(p) == NodeAt(tree, p).type \in {"function_definition", "class_definition"}

\* whether the node at p is a definition wrapped by a decorator construct
IsDecorated(p) ==
    IsDef(p) /\ p # <<>> /\ NodeAt(tree, Front(p)).type = "decorated_definition"

\* the first row of the definition at p, its decorators included
FirstRow(p) ==
    IF IsDecorated(p) THEN NodeAt(tree, Front(p)).start_row
    ELSE NodeAt(tree, p).start_row

\* whether the definition at p, decorators included, contains the target line
DefContainsLine(p) ==
    IsDef(p) /\ FirstRow(p) + 1 <= line_no /\ line_no <= NodeAt(tree, p).end_row + 1

\* the definitions that contain the target line
Enclosing == {p \in AllPaths(tree) : DefContainsLine(p)}

\* the Scope that stands for the definition at p
ScopeOf(p) ==
    [type |-> IF NodeAt(tree, p).type = "class_definition" THEN "class" ELSE "function",
     name |-> NodeAt(tree, p).name[1],
     start_line |-> FirstRow(p) + 1,
     end_line |-> NodeAt(tree, p).end_row + 1]

\* the Python resolver has answered for a line >= 1
PythonFound == apc = "found" /\ language = "python" /\ line_no >= 1

\* C14: for a Python tree and a line >= 1, the scope returned is a function
\* or class definition that contains the line and has no other definition
\* containing the line nested inside it: a method wins over its class, a
\* nested function over the outer one.
C14_InnermostScope ==
    (PythonFound /\ Enclosing # {}) =>
        /\ scope # <<>>
        /\ \E p \in Enclosing :
              /\ scope[1] = ScopeOf(p)
              /\ ~\E q \in Enclosing : Inside(p, q)

\* a line of a method: the method is returned, not its class
C14_Witness ==
    /\ PythonFound
    /\ scope # <<>>
    /\ \E p, q \in Enclosing :
          /\ Inside(p, q)
          /\ NodeAt(tree, p).type = "class_definition"
          /\ NodeAt(tree, q).type = "function_definition"
          /\ scope[1] = ScopeOf(q)
          /\ scope[1].type = "function"

\* whether the target line is a decorator line of the definition at p
OnDecoratorLine(p) ==
    /\ IsDecorated(p)
    /\ FirstRow(p) + 1 <= line_no
    /\ line_no < NodeAt(tree, p).start_row + 1

\* C15: when the definition resolved is wrapped by a decorator construct, the
\* scope has its kind, name and end_line, and its start_line is the first
\* line of the wrapper (the first of stacked decorators); this holds when the
\* line is inside the definition and when it is a decorator line, and then
\* the resolver is not called on the definition: it does not descend into it.
C15_DecoratedScope ==
    PythonFound =>
        \A p \in Enclosing :
            (IsDecorated(p) /\ ~\E q \in Enclosing : Inside(p, q)) =>
                /\ scope # <<>>
                /\ scope[1].type =
                      (IF NodeAt(tree, p).type = "class_definition"
                       THEN "class" ELSE "function")
                /\ scope[1].name = NodeAt(tree, p).name[1]
                /\ scope[1].end_line = NodeAt(tree, p).end_row + 1
                /\ scope[1].start_line = NodeAt(tree, Front(p)).start_row + 1
                /\ OnDecoratorLine(p) => p \notin descended

\* the second of two stacked decorators of a function: the scope starts at
\* the first decorator, one line above the target
C15_Witness ==
    /\ PythonFound
    /\ scope # <<>>
    /\ \E p \in Enclosing :
          /\ OnDecoratorLine(p)
          /\ NodeAt(tree, p).type = "function_definition"
          /\ Len(NodeAt(tree, Front(p)).children) = 3
          /\ line_no = FirstRow(p) + 2
          /\ scope[1] = ScopeOf(p)
          /\ scope[1].start_line = line_no - 1
          /\ p \notin descended

\* the lambdas and comprehensions whose rows contain the target line
AnonymousAtLine ==
    {p \in AllPaths(tree) :
        /\ NodeAt(tree, p).type \in {"lambda", "list_comprehension"}
        /\ NodeAt(tree, p).start_row + 1 <= line_no
        /\ line_no <= NodeAt(tree, p).end_row + 1}

\* the definitions the node at p lies inside
DefsAround(p) == {q \in AllPaths(tree) : IsDef(q) /\ Inside(q, p)}

\* C16: the scope returned is a function or a class, never a lambda, a
\* comprehension or another construct: a line inside a lambda or
\* comprehension resolves to the function or class closest around it, and
\* to none when it stands at module level.
C16_OnlyDefinitions ==
    apc = "found" =>
        /\ scope # <<>> => scope[1].type \in {"function", "class"}
        /\ PythonFound =>
              \A p \in AnonymousAtLine :
                 IF DefsAround(p) = {} THEN scope = <<>>
                 ELSE /\ scope # <<>>
                      /\ \E q \in DefsAround(p) :
                            /\ scope[1] = ScopeOf(q)
                            /\ \A r \in DefsAround(p) : Len(r) <= Len(q)

\* a line of a comprehension inside a function: the function is returned
C16_Witness ==
    /\ PythonFound
    /\ \E p \in AnonymousAtLine :
          /\ NodeAt(tree, p).type = "list_comprehension"
          /\ \E q \in DefsAround(p) :
                /\ NodeAt(tree, q).type = "function_definition"
                /\ scope = <<ScopeOf(q)>>
                /\ scope[1].type = "function"

\* C17: find_enclosing_scope returns None, and does not raise, when line < 1,
\* when the language is not Python (another language, or none detected), and
\* when no function or class definition contains the line (module level, or
\* a line beyond the end of the file).
C17_NoneWithoutScope ==
    ( /\ apc = "found"
      /\ \/ line_no < 1
         \/ language # "python"
         \/ Enclosing = {} ) => scope = <<>>

\* a line of a function in a tree resolved for Go: None
C17_Witness ==
    /\ apc = "found"
    /\ language = "go"
    /\ \E p \in Enclosing : NodeAt(tree, p).type = "function_definition"
    /\ scope = <<>>

----------------------------------------------------------------------------
(* Properties of extract_scope_context. *)

\* MARKER_OPEN is the text '... [truncated '
MARKER_OPEN ==
    <<46,46,46,32,91,116,114,117,110,99,97,116,101,100,32>>

\* the slice of the source the scope stands for, cut to the bounds of the
\* source: the lines from max(start_line, 1) to min(end_line, len)
ScopeSlice ==
    LET first == IF scope[1].start_line >= 1 THEN scope[1].start_line ELSE 1
        last == IF scope[1].end_line <= Len(source_lines)
                THEN scope[1].end_line ELSE Len(source_lines)
    IN  [k \in 1..(last - first + 1) |-> source_lines[first + k - 1]]

\* C18: when is_new_file is false and the slice has more than limit lines,
\* the text returned has exactly limit + 1 lines, for every limit >= 0: the
\* first limit lines of the slice, unchanged and in order, then one marker
\* line "... [truncated N lines]" with N = total - limit.
C18_TruncatedAtTail ==
    (apc = "extracted" /\ ~is_new_file /\ Len(ScopeSlice) > limit) =>
        LET out == split_lines(text)
        IN  /\ Len(out) = limit + 1
            /\ \A k \in 1..limit : out[k] = ScopeSlice[k]
            /\ out[limit + 1] =
                  MARKER_OPEN \o str_of(Len(ScopeSlice) - limit) \o TRUNCATED_CLOSE

\* C19: when is_new_file is true, or the slice has at most limit lines, the
\* text returned is the lines of the slice joined by newlines, without a
\* marker; a scope reaching past the end of the source is cut at its last
\* line, and a scope wholly past the end gives the empty text.
C19_WholeSlice ==
    (apc = "extracted" /\ (is_new_file \/ Len(ScopeSlice) <= limit)) =>
        IF ScopeSlice = <<>> THEN text = <<>>
        ELSE split_lines(text) = ScopeSlice

\* a new file whose scope reaches past the end of a source of 4 lines, with
\* limit 1: the 3 lines from line 2 on are returned, none left out
C19_Witness ==
    /\ apc = "extracted"
    /\ is_new_file
    /\ limit = 1
    /\ source_lines = <<<<97>>, <<98>>, <<>>, <<97>>>>
    /\ scope[1].start_line = 2
    /\ scope[1].end_line = 5
    /\ text = <<98, 10, 10, 97>>

----------------------------------------------------------------------------
(* Properties of the parser cache. *)

\* C20: when several threads call get_parser, directly or through
\* parse_file, for the same language while the cache holds no entry for it,
\* at most one parser is constructed for the language and every caller
\* receives that same instance.
C20_OneParserPerLanguage ==
    /\ \A l \in Languages :
          Cardinality({i \in 1..Len(parsers) : parsers[i] = l}) <= 1
    /\ \A t, u \in Threads :
          ( /\ tresult[t] # <<>>
            /\ tresult[u] # <<>>
            /\ targ[t].language = targ[u].language ) => tresult[t] = tresult[u]

\* C21: while one call follows another and the cache is not cleared, every
\* successful get_parser for a language returns one and the same parser and
\* the grammar of the language is loaded once; a step that clears the cache
\* (the only step in which no caller moves) leaves no entry in it, and no
\* parser returned before the clear is returned after it.
C21_OneInstanceUntilCleared ==
    /\ [](\A l \in Languages :
             /\ Cardinality(issued[l]) <= 1
             /\ loads[l] <= 1
             /\ issued[l] \cap retired = {})
    /\ [][ tpc' = tpc => \A l \in Languages : parser_cache'[l] = <<>> ]_vars

\* the caller got parser 1 for Python, cleared the cache and called again:
\* the grammar was loaded anew, once, and the call returned parser 2
C21_Witness ==
    /\ tpc[1] = "done"
    /\ targ[1].language = "python"
    /\ retired = {1}
    /\ issued["python"] = {2}
    /\ loads["python"] = 1
    /\ tresult[1] = <<2>>
    /\ parser_cache["python"] = <<2>>

\* C22: a call of get_parser or parse_file for a language other than Python
\* gets no parser and ends in an UnsupportedLanguageError whose message holds
\* the language's name, and no step of such a call changes the parser cache.
C22_UnsupportedLeavesCache ==
    /\ [](\A t \in Threads :
             targ[t].language # "python" =>
                /\ tpc[t] \in {"off", "idle", "check", "load", "raised"}
                /\ tresult[t] = <<>>
                /\ tparsed[t] = NotParsed
                /\ tpc[t] = "raised" =>
                      /\ traised[t] # <<>>
                      /\ traised[t][1].type = "UnsupportedLanguageError"
                      /\ find(traised[t][1].message,
                              language_value(targ[t].language)) >= 0)
    /\ [][ \A t \in Threads :
              (tpc'[t] # tpc[t] /\ targ'[t].language # "python") =>
                 parser_cache' = parser_cache ]_vars

\* parse_file for TypeScript has failed while the cache holds parser 1 for
\* Python, which is still there
C22_Witness ==
    /\ tpc[1] = "raised"
    /\ targ[1] = [op |-> "parse_file", language |-> "typescript"]
    /\ traised[1] # <<>>
    /\ traised[1][1].message = NO_GRAMMAR \o language_value("typescript")
    /\ parser_cache["python"] = <<1>>
    /\ \A l \in Languages \ {"python"} : parser_cache[l] = <<>>

\* whether the root reports an error and every one of its immediate named
\* children is an error marker
NothingRecovered(root) ==
    /\ root.has_error
    /\ \A i \in 1..Len(root.named_children) : root.named_children[i] = "ERROR"

\* C23: when parser.parse has produced a tree, parse_file raises nothing; it
\* returns None, after logging a warning, exactly when the root reports an
\* error and every immediate named child of the root is an error marker, and
\* it returns the tree itself in every other case, a root without children
\* or with comments only included.
C23_AbsentOnlyIfNothingRecovered ==
    \A t \in Threads :
        tparsed[t].tree # <<>> =>
            /\ traised[t] = <<>>
            /\ tpc[t] # "raised"
            /\ IF NothingRecovered(tparsed[t].tree[1])
               THEN tparsed[t].returned = <<>> /\ tparsed[t].warned
               ELSE tparsed[t].returned = tparsed[t].tree

\* a tree whose root reports an error and has two named children, both
\* error markers: parse_file has warned and returned None
C23_Witness ==
    /\ tpc[1] = "done"
    /\ targ[1] = [op |-> "parse_file", language |-> "python"]
    /\ tparsed[1].tree = <<Root(TRUE, <<"ERROR", "ERROR">>)>>
    /\ tparsed[1].returned = <<>>
    /\ tparsed[1].warned

\* a tree with an error marker beside a definition is returned
C23_PartialReturned ==
    /\ tpc[1] = "done"
    /\ tparsed[1].tree = <<Root(TRUE, <<"ERROR", "function_definition">>)>>
    /\ tparsed[1].returned = tparsed[1].tree

\* the tree of an empty source is returned
C23_EmptyReturned ==
    /\ tpc[1] = "done"
    /\ tparsed[1].tree = <<Root(FALSE, <<>>)>>
    /\ tparsed[1].returned = tparsed[1].tree

\* the tree of a source of comments is returned
C23_CommentsReturned ==
    /\ tpc[1] = "done"
    /\ tparsed[1].tree = <<Root(FALSE, <<"comment", "comment">>)>>
    /\ tparsed[1].returned = tparsed[1].tree

----------------------------------------------------------------------------
(* More properties of parse_diff. *)

\* the hunk header lines of the inputs, with the numbers each one states:
\* old_start, old_count, new_start, new_count, 1 for a count left out
StatedNumbers ==
    [l \in {L_hunk, L_hunk_zero, L_hunk_tail} |->
        CASE l = L_hunk -> <<1, 1, 1, 2>>
          [] l = L_hunk_zero -> <<1, 0, 0, 0>>
          [] l = L_hunk_tail -> <<2, 3, 4, 1>>]

\* C24: while a file is open, a hunk header line appends to the file's hunks
\* a hunk with the line's four numbers (1 for a count left out, 0 for a count
\* of 0) and no edits, changes nothing else of the file or the result, and
\* makes that last hunk the open one; the open hunk is always the last hunk
\* of the open file.
C24_HeaderOpensHunk ==
    /\ [][ ( /\ pc = "loop"
             /\ idx < Len(lines)
             /\ current_file # <<>>
             /\ lines[idx + 1] \in DOMAIN StatedNumbers )
           => LET n == StatedNumbers[lines[idx + 1]]
                  f == current_file[1]
              IN  /\ current_file' =
                        <<[f EXCEPT !.hunks =
                              Append(@, [old_start |-> n[1], old_count |-> n[2],
                                         new_start |-> n[3], new_count |-> n[4],
                                         lines |-> <<>>])]>>
                  /\ current_hunk' = Len(f.hunks) + 1
                  /\ files' = files
         ]_vars
    /\ [](current_hunk # 0 =>
             /\ current_file # <<>>
             /\ current_hunk = Len(current_file[1].hunks))

\* two hunks of x, the second with counts of 0, then a context line: the
\* edit is in the second hunk and the first has none
C24_Witness ==
    /\ pc = "done"
    /\ lines = <<L_header_x, L_hunk, L_hunk_zero, L_context>>
    /\ Len(files) = 1
    /\ Len(files[1].hunks) = 2
    /\ files[1].hunks[1].lines = <<>>
    /\ files[1].hunks[2].old_count = 0
    /\ files[1].hunks[2].new_start = 0
    /\ files[1].hunks[2].new_count = 0
    /\ files[1].hunks[2].lines = <<<<Space, <<99>>>>>>

\* the flags of a DiffFile
Flags(f) ==
    [is_new_file |-> f.is_new_file, is_deleted |-> f.is_deleted,
     is_renamed |-> f.is_renamed, is_binary |-> f.is_binary,
     mode_changed |-> f.mode_changed]

\* the flags a file has after line l was applied to a file with flags g: a
\* flag is set by its own lines and is otherwise what it was
FlagsAfter(g, l) ==
    [is_new_file |-> g.is_new_file \/ l = L_new_file,
     is_deleted |-> g.is_deleted \/ l = L_deleted,
     is_renamed |-> g.is_renamed \/ l \in {L_rename_from, L_rename_to},
     is_binary |-> g.is_binary \/ l = L_binary,
     mode_changed |-> g.mode_changed \/ l \in {L_old_mode, L_new_mode}]

\* C25: a DiffFile is opened with every flag false; each line consumed while
\* it is open sets the flag the line stands for (new file mode, deleted file
\* mode, rename from / rename to, Binary files, old mode / new mode) and
\* leaves every other flag as it was; the flags of a file in the result
\* never change.
C25_FlagsSetByOwnLine ==
    [][ /\ ( /\ pc = "loop"
             /\ idx < Len(lines)
             /\ lines[idx + 1] = L_header_x )
           => /\ current_file' # <<>>
              /\ Flags(current_file'[1]) = Flags(DiffFile(<<>>, <<>>))
              /\ files' = files \o current_file
        /\ ( /\ pc = "loop"
             /\ idx < Len(lines)
             /\ lines[idx + 1] # L_header_x
             /\ current_file # <<>> )
           => /\ current_file' # <<>>
              /\ Flags(current_file'[1]) =
                    FlagsAfter(Flags(current_file[1]), lines[idx + 1])
              /\ files' = files
        /\ (pc = "loop" /\ idx = Len(lines))
           => files' = files \o current_file
        /\ SubSeq(files', 1, Len(files)) = files
      ]_vars

\* a file that was renamed and had its mode changed, and nothing else
C25_Witness ==
    /\ pc = "done"
    /\ lines = <<L_header_x, L_rename_to, L_old_mode>>
    /\ Len(files) = 1
    /\ Flags(files[1]) =
          [is_new_file |-> FALSE, is_deleted |-> FALSE, is_renamed |-> TRUE,
           is_binary |-> FALSE, mode_changed |-> TRUE]

\* the path each path line of the inputs names: p, q, z and w
PathNamed ==
    [l \in {L_rename_from, L_rename_to, L_minus_path, L_plus_path} |->
        CASE l = L_rename_from -> <<112>>
          [] l = L_rename_to -> <<113>>
          [] l = L_minus_path -> <<122>>
          [] l = L_plus_path -> <<119>>]

\* the old path of a file with old path old after line l, consumed with a
\* hunk open or not: "--- " lines are metadata only while no hunk is open
OldPathAfter(old, l, hunk_open) ==
    IF l = L_rename_from \/ (l = L_minus_path /\ ~hunk_open)
    THEN PathNamed[l]
    ELSE old

\* the same for the new path
NewPathAfter(new, l, hunk_open) ==
    IF l = L_rename_to \/ (l = L_plus_path /\ ~hunk_open)
    THEN PathNamed[l]
    ELSE new

\* C26: a "--- /dev/null" or "+++ /dev/null" line read as metadata leaves
\* the open file exactly as it was; a path of a file changes only through a
\* line that names a path, to that path, so no file ever holds "/dev/null"
\* and the path of a parsed file (the old path of a deleted file, the new
\* path of any other) is the one the header or the last such line gave.
C26_DevNullKeepsPath ==
    /\ [][ /\ ( /\ pc = "loop"
                /\ idx < Len(lines)
                /\ current_file # <<>>
                /\ current_hunk = 0
                /\ lines[idx + 1] \in {L_minus_null, L_plus_null} )
              => /\ current_file' = current_file
                 /\ files' = files
           /\ ( /\ pc = "loop"
                /\ idx < Len(lines)
                /\ current_file # <<>>
                /\ lines[idx + 1] # L_header_x )
              => /\ current_file' # <<>>
                 /\ current_file'[1].old_path =
                       OldPathAfter(current_file[1].old_path, lines[idx + 1],
                                    current_hunk # 0)
                 /\ current_file'[1].new_path =
                       NewPathAfter(current_file[1].new_path, lines[idx + 1],
                                    current_hunk # 0)
           /\ ( /\ pc = "loop"
                /\ idx < Len(lines)
                /\ lines[idx + 1] = L_header_x )
              => /\ current_file' # <<>>
                 /\ current_file'[1].old_path = <<120>>
                 /\ current_file'[1].new_path = <<120>>
         ]_vars
    /\ [](\A k \in 1..Len(files) :
             /\ files[k].old_path # DEV_NULL
             /\ files[k].new_path # DEV_NULL
             /\ path(files[k]) =
                   IF files[k].is_deleted
                   THEN files[k].old_path
                   ELSE files[k].new_path)

\* a deleted file: "+++ /dev/null" came after "deleted file mode", and the
\* path of the file is still x
C26_Witness ==
    /\ pc = "done"
    /\ lines = <<L_header_x, L_deleted, L_plus_null>>
    /\ Len(files) = 1
    /\ files[1].is_deleted
    /\ files[1].new_path = <<120>>
    /\ path(files[1]) = <<120>>

\* a new file: "--- /dev/null" came after "new file mode", and the path of
\* the file is x
C26_NewFile ==
    /\ pc = "done"
    /\ lines = <<L_header_x, L_new_file, L_minus_null>>
    /\ Len(files) = 1
    /\ files[1].is_new_file
    /\ files[1].old_path = <<120>>
    /\ path(files[1]) = <<120>>

\* the edits of the hunks of file f, hunk by hunk
EditsOf(f) == [k \in 1..Len(f.hunks) |-> f.hunks[k].lines]

\* C28: a file in the result list is never changed again; a line consumed
\* before the first header changes nothing; a header leaves no hunk open,
\* and while no hunk is open a line that begins like an edit adds no edit to
\* any hunk; a line edit changes the open file's last hunk and no other.
C28_OnlyOpenFileChanges ==
    [][ /\ SubSeq(files', 1, Len(files)) = files
        /\ ( /\ pc = "loop"
             /\ idx < Len(lines)
             /\ current_file = <<>>
             /\ ~startswith(lines[idx + 1], DIFF_GIT) )
           => /\ files' = files
              /\ current_file' = <<>>
              /\ current_hunk' = 0
        /\ ( /\ pc = "loop"
             /\ idx < Len(lines)
             /\ startswith(lines[idx + 1], DIFF_GIT) )
           => /\ files' = files \o current_file
              /\ current_file' # <<>>
              /\ current_file'[1].hunks = <<>>
              /\ current_hunk' = 0
        /\ ( /\ pc = "loop"
             /\ idx < Len(lines)
             /\ current_file # <<>>
             /\ current_hunk = 0
             /\ BeginsLikeEdit(lines[idx + 1]) )
           => /\ files' = files
              /\ current_file' # <<>>
              /\ current_file'[1].hunks = current_file[1].hunks
        /\ ( /\ pc = "loop"
             /\ idx < Len(lines)
             /\ current_file # <<>>
             /\ current_hunk # 0
             /\ BeginsLikeEdit(lines[idx + 1]) )
           => /\ files' = files
              /\ current_file' # <<>>
              /\ Len(current_file'[1].hunks) = Len(current_file[1].hunks)
              /\ \A k \in 1..(Len(current_file[1].hunks) - 1) :
                    current_file'[1].hunks[k] = current_file[1].hunks[k]
              /\ EditsOf(current_file'[1])[Len(current_file[1].hunks)] #
                    EditsOf(current_file[1])[Len(current_file[1].hunks)]
      ]_vars

\* a context line after the header of y, which followed the hunk of x: the
\* hunk of x has no edit and y has no hunk
C28_Witness ==
    /\ pc = "done"
    /\ lines = <<L_header_x, L_hunk, L_header_y, L_context>>
    /\ Len(files) = 2
    /\ EditsOf(files[1]) = <<<<>>>>
    /\ files[2].hunks = <<>>

----------------------------------------------------------------------------
(* More properties of the region builder. *)

\* the objects a list refers to
Referred(list) == {list[i] : i \in 1..Len(list)}

\* the Regions a list of references leads to
ValuesOf(list) == [i \in 1..Len(list) |-> objects[list[i]]]

\* C27: merge_regions returns none of the Region objects it was handed, for
\* a list of any length; neither the call nor a later change of a returned
\* region alters an object of the argument list or the list itself; and the
\* regions returned are those merge_regions computes from the regions given.
C27_NoAliasing ==
    /\ [](rpc \in {"returned", "changed"} =>
             Referred(result_list) \cap Referred(arg_list) = {})
    /\ [](rpc = "returned" =>
             ValuesOf(result_list) = merge_regions(ValuesOf(arg_list)))
    /\ [][ /\ arg_list' = arg_list
           /\ \A o \in Referred(arg_list) : objects'[o] = objects[o] ]_vars

\* a list of one region was merged and the start of the returned region set
\* to 0: the region given still starts at line 1
C27_Witness ==
    /\ rpc = "changed"
    /\ arg_list = <<1>>
    /\ result_list = <<2>>
    /\ objects = <<Region(1, 2), Region(0, 2)>>

\* a list holding one object twice and another between: the one region
\* returned was changed and both objects given are as they were
C27_LongList ==
    /\ rpc = "changed"
    /\ arg_list = <<1, 2, 1>>
    /\ result_list = <<3>>
    /\ objects = <<Region(1, 2), Region(2, 3), Region(1, 4)>>

\* C29: every Region build_file_regions returns lies inside the file
\* (1 <= start_line <= end_line <= file_length), for every DiffFile the
\* parser returns, every file length from 0 on and every expansion; and for
\* a file that is not new, deleted or binary and has hunks, the result is
\* merge_regions of the expanded hunks.
C29_RegionsInsideFile ==
    rpc = "built" =>
        /\ \A i \in 1..Len(built) :
              /\ 1 <= built[i].start_line
              /\ built[i].start_line <= built[i].end_line
              /\ built[i].end_line <= file_length[1]
        /\ ( /\ ~diff_file[1].is_new_file
             /\ ~diff_file[1].is_deleted
             /\ ~diff_file[1].is_binary
             /\ diff_file[1].hunks # <<>> )
           => built = merge_regions(
                  [k \in 1..Len(diff_file[1].hunks) |->
                      expand_hunk(diff_file[1].hunks[k], expansion, file_length)])

\* the second half of C29 alone: the result for a file with hunks that is
\* not new, deleted or binary
C29_MergeOfExpandedHunks ==
    ( /\ rpc = "built"
      /\ ~diff_file[1].is_new_file
      /\ ~diff_file[1].is_deleted
      /\ ~diff_file[1].is_binary
      /\ diff_file[1].hunks # <<>> )
    => built = merge_regions(
           [k \in 1..Len(diff_file[1].hunks) |->
               expand_hunk(diff_file[1].hunks[k], expansion, file_length)])

----------------------------------------------------------------------------
(* More properties of the scope resolver. *)

\* C30: a scope find_enclosing_scope returns for target line n encloses the
\* line: 1 <= start_line <= n <= end_line; this holds on a decorator line
\* and on the first and the last line of the definition as well.
C30_ScopeEnclosesLine ==
    (apc = "found" /\ scope # <<>>) =>
        /\ 1 <= scope[1].start_line
        /\ scope[1].start_line <= line_no
        /\ line_no <= scope[1].end_line

\* the target is the first decorator of a definition of more than two lines:
\* the scope starts on the target line
C30_Witness ==
    /\ PythonFound
    /\ scope # <<>>
    /\ \E p \in Enclosing :
          /\ OnDecoratorLine(p)
          /\ scope[1] = ScopeOf(p)
          /\ scope[1].start_line = line_no
          /\ scope[1].end_line > line_no + 1

\* the target is the last line of an undecorated definition that starts
\* above it
C30_LastLine ==
    /\ PythonFound
    /\ scope # <<>>
    /\ \E p \in Enclosing :
          /\ ~IsDecorated(p)
          /\ scope[1] = ScopeOf(p)
          /\ scope[1].start_line < line_no
          /\ scope[1].end_line = line_no

\* the target is the line of the def keyword of a decorated definition
C30_FirstLineOfDefinition ==
    /\ PythonFound
    /\ scope # <<>>
    /\ \E p \in Enclosing :
          /\ IsDecorated(p)
          /\ scope[1] = ScopeOf(p)
          /\ line_no = NodeAt(tree, p).start_row + 1
          /\ scope[1].start_line < line_no

====
